---- MODULE Spec2Model ----
(***************************************************************************)
(* Model of the HTTP request wrapper of junxuan01/code-snippet:            *)
(*   - the error factory (createBusinessErrorFromAxios / FromResponse),    *)
(*   - the ErrorHandlerManager (register / handle / updateConfig),         *)
(*   - the Request facade's response interceptors and resolveReturnData.   *)
(*   - the cancellable facade (pendingRequests, cancelRequest).             *)
(* Optional JavaScript values are modelled as sequences of length <= 1:    *)
(* None is undefined, Some(v) is the value v.                              *)
(***************************************************************************)
EXTENDS Integers, Sequences, FiniteSets, TLC

VARIABLES
  handlers,            \* ErrorHandlerManager.handlers: sequence of handler objects
  closures,            \* closures[r]: handler captured by the r-th register() call
  showDefaultMessage,  \* ErrorHandlerManager.showDefaultMessage
  messageHandler,      \* ErrorHandlerManager.messageHandler (a function identity)
  dispatch,            \* the latest execution of ErrorHandlerManager.handle
  invoked,             \* closures the caller has already invoked at least once
  inst,                \* constructor configuration of the Request instance
  call,                \* the latest call issued through the facade
  others,              \* calls and dispatches in flight besides the latest ones
  fin,                 \* input of the error factory under check
  fout,                \* output of the error factory (None until applied)
  pendingRequests,     \* Request.pendingRequests of the cancellable facade
  calls,               \* calls issued through the cancellable facade
  jobs                 \* request interceptors and dispatches waiting in the job queue

chainVars == <<handlers, closures, showDefaultMessage, messageHandler, dispatch, others,
              invoked>>
facadeVars == <<inst, call>>
factoryVars == <<fin, fout>>
cancelVars == <<pendingRequests, calls, jobs>>
vars == <<handlers, closures, showDefaultMessage, messageHandler, dispatch, invoked,
          inst, call, others, fin, fout, pendingRequests, calls, jobs>>

None == <<>>
Some(v) == <<v>>
Opt(S) == {None} \cup {Some(v) : v \in S}

(***************************************************************************)
(* Strings: String.prototype.includes is computed on the characters.       *)
(***************************************************************************)
Chars(s) ==
  CASE s = "Network Error" -> <<"N", "e", "t", "w", "o", "r", "k", " ", "E", "r", "r", "o", "r">>
    [] s = "timeout of 5ms exceeded" -> <<"t", "i", "m", "e", "o", "u", "t", " ", "o", "f", " ", "5", "m", "s", " ", "e", "x", "c", "e", "e", "d", "e", "d">>
    [] s = "Request failed" -> <<"R", "e", "q", "u", "e", "s", "t", " ", "f", "a", "i", "l", "e", "d">>
    [] s = "network error" -> <<"n", "e", "t", "w", "o", "r", "k", " ", "e", "r", "r", "o", "r">>
    [] s = "Network Error: timeout" -> <<"N", "e", "t", "w", "o", "r", "k", " ", "E", "r", "r", "o", "r", ":", " ", "t", "i", "m", "e", "o", "u", "t">>
    [] s = "interceptor boom" -> <<"i", "n", "t", "e", "r", "c", "e", "p", "t", "o", "r", " ", "b", "o", "o", "m">>
    [] s = "" -> <<>>
    [] s = "timeout" -> <<"t", "i", "m", "e", "o", "u", "t">>

Includes(s, pat) ==
  LET t == Chars(s)
      p == Chars(pat)
  IN  \E i \in 0..(Len(t) - Len(p)) : SubSeq(t, i + 1, i + Len(p)) = p

\* JavaScript truthiness of an optional string
TruthyStr(o) == o # None /\ o[1] # ""

(***************************************************************************)
(* Error factory                                                           *)
(***************************************************************************)
DEFAULT_HTTP_ERROR_MESSAGES ==
  [ s400 |-> "Invalid request parameters",
    s401 |-> "Unauthorized, please login again",
    s403 |-> "Access denied",
    s404 |-> "Requested resource not found",
    s405 |-> "Method not allowed",
    s408 |-> "Request timeout",
    s429 |-> "Too many requests",
    s500 |-> "Internal server error",
    s502 |-> "Bad gateway",
    s503 |-> "Service unavailable",
    s504 |-> "Gateway timeout",
    networkError |-> "Network error, please check your connection",
    timeoutError |-> "Request timed out, please try again later",
    defaultError |-> "Unknown error",
    noResponse |-> "No response from server" ]

\* property key under which a numeric status is looked up in the table
StatusKey(st) ==
  CASE st = 400 -> "s400" [] st = 401 -> "s401" [] st = 403 -> "s403"
    [] st = 404 -> "s404" [] st = 405 -> "s405" [] st = 408 -> "s408"
    [] st = 429 -> "s429" [] st = 500 -> "s500" [] st = 502 -> "s502"
    [] st = 503 -> "s503" [] st = 504 -> "s504" [] st = 418 -> "s418"

\* the template literal `Request error (${httpStatus})`
RequestErrorText(st) ==
  CASE st = 400 -> "Request error (400)" [] st = 401 -> "Request error (401)"
    [] st = 403 -> "Request error (403)" [] st = 404 -> "Request error (404)"
    [] st = 405 -> "Request error (405)" [] st = 408 -> "Request error (408)"
    [] st = 429 -> "Request error (429)" [] st = 500 -> "Request error (500)"
    [] st = 502 -> "Request error (502)" [] st = 503 -> "Request error (503)"
    [] st = 504 -> "Request error (504)" [] st = 418 -> "Request error (418)"

\* variant that drops the caller's overrides
mergeErrorMessages_noCustom(custom) == DEFAULT_HTTP_ERROR_MESSAGES

\* { ...DEFAULT_HTTP_ERROR_MESSAGES, ...custom }
mergeErrorMessages(custom) ==
  IF custom = None THEN DEFAULT_HTTP_ERROR_MESSAGES
  ELSE [k \in DOMAIN DEFAULT_HTTP_ERROR_MESSAGES \cup DOMAIN custom[1] |->
          IF k \in DOMAIN custom[1] THEN custom[1][k]
          ELSE DEFAULT_HTTP_ERROR_MESSAGES[k]]

BusinessError(code, message, data, httpStatus, isNetworkError, isTimeoutError) ==
  [ code |-> code, message |-> message, data |-> data, httpStatus |-> httpStatus,
    isNetworkError |-> isNetworkError, isTimeoutError |-> isTimeoutError ]

\* variant without the request-but-no-response branch
BranchMessage_noRequestBranch(error, messages) ==
  IF error.response # None THEN
    LET httpStatus == error.response[1].status
        responseData == error.response[1].data
        byStatus == IF StatusKey(httpStatus) \in DOMAIN messages
                    THEN messages[StatusKey(httpStatus)]
                    ELSE RequestErrorText(httpStatus)
    IN  IF responseData # None /\ TruthyStr(responseData[1].message)
          THEN responseData[1].message[1]
        ELSE IF responseData # None /\ TruthyStr(responseData[1].msg)
          THEN responseData[1].msg[1]
        ELSE IF responseData # None /\ TruthyStr(responseData[1].error)
          THEN responseData[1].error[1]
        ELSE byStatus
  ELSE IF TruthyStr(error.message) THEN error.message[1]
  ELSE messages.defaultError

\* message chosen by the response / request / neither branches
BranchMessage(error, messages) ==
  IF error.response # None THEN
    LET httpStatus == error.response[1].status
        responseData == error.response[1].data
        byStatus == IF StatusKey(httpStatus) \in DOMAIN messages
                    THEN messages[StatusKey(httpStatus)]
                    ELSE RequestErrorText(httpStatus)
    IN  IF responseData # None /\ TruthyStr(responseData[1].message)
          THEN responseData[1].message[1]
        ELSE IF responseData # None /\ TruthyStr(responseData[1].msg)
          THEN responseData[1].msg[1]
        ELSE IF responseData # None /\ TruthyStr(responseData[1].error)
          THEN responseData[1].error[1]
        ELSE byStatus
  ELSE IF error.request THEN messages.noResponse
  ELSE IF TruthyStr(error.message) THEN error.message[1]
  ELSE messages.defaultError

\* variant that applies the network override after the timeout override
createBusinessErrorFromAxios_networkLast(error, customMessages) ==
  LET messages == mergeErrorMessages(customMessages)
      isNetworkError == IF error.message = None THEN FALSE
                        ELSE Includes(error.message[1], "Network Error")
      isTimeoutError == IF error.message = None THEN FALSE
                        ELSE Includes(error.message[1], "timeout")
      httpStatus == IF error.response # None
                    THEN Some(error.response[1].status) ELSE None
      code == IF error.response # None THEN error.response[1].status ELSE -1
      branchMessage == BranchMessage(error, messages)
      afterTimeout == IF isTimeoutError THEN messages.timeoutError ELSE branchMessage
      errorMessage == IF isNetworkError THEN messages.networkError ELSE afterTimeout
  IN  BusinessError(Some(code), errorMessage, None, httpStatus,
                    isNetworkError, isTimeoutError)

createBusinessErrorFromAxios(error, customMessages) ==
  LET messages == mergeErrorMessages(customMessages)
      isNetworkError == IF error.message = None THEN FALSE
                        ELSE Includes(error.message[1], "Network Error")
      isTimeoutError == IF error.message = None THEN FALSE
                        ELSE Includes(error.message[1], "timeout")
      httpStatus == IF error.response # None
                    THEN Some(error.response[1].status) ELSE None
      code == IF error.response # None THEN error.response[1].status ELSE -1
      branchMessage == BranchMessage(error, messages)
      afterNetwork == IF isNetworkError THEN messages.networkError ELSE branchMessage
      errorMessage == IF isTimeoutError THEN messages.timeoutError ELSE afterNetwork
  IN  BusinessError(Some(code), errorMessage, None, httpStatus,
                    isNetworkError, isTimeoutError)

\* variant that passes an empty message through
createBusinessErrorFromResponse_noDefault(code, message, data, httpStatus) ==
  BusinessError(code, IF message = None THEN "" ELSE message[1],
                data, httpStatus, FALSE, FALSE)

createBusinessErrorFromResponse(code, message, data, httpStatus) ==
  BusinessError(code, IF TruthyStr(message) THEN message[1] ELSE "Request failed",
                data, httpStatus, FALSE, FALSE)

(***************************************************************************)
(* ErrorHandlerManager                                                     *)
(***************************************************************************)
MaxRegs == 2          \* register() calls per behaviour
MaxLoad == 2          \* suspended handle() calls times registrations, beyond one call

\* Handler objects the caller may register.  hCode is the handler of the unit
\* tests (canHandle: err.code === 10001, handle: () => true).
HandlerObjs == {"hCode", "hStop", "hPass", "hThrow"}

CanHandle(h, error) ==
  IF h = "hCode" THEN error.code = Some(10001) ELSE TRUE

\* what handler.handle(error) produces: a truthy value, a falsy value
\* (false / undefined), or an exception
HandleResult(h) ==
  CASE h = "hCode" -> "true"
    [] h = "hStop" -> "true"
    [] h = "hPass" -> "false"
    [] h = "hThrow" -> "throw"

\* message-reporting functions; mThrow raises when invoked
MessageFns == {"console.error", "message.error", "m2", "mThrow"}
\* functions handed to the constructor / to updateConfig
CtorMessageFns == {"mThrow"}
UpdateMessageFns == {"m2", "mThrow"}

Event(k, h, msg) == [k |-> k, h |-> h, msg |-> msg]

\* Array.prototype.indexOf: first position holding the object, 0 when absent
IndexOf(hs, h) ==
  IF \E i \in 1..Len(hs) : hs[i] = h
  THEN CHOOSE i \in 1..Len(hs) : hs[i] = h /\ \A j \in 1..(i - 1) : hs[j] # h
  ELSE 0

\* Array.prototype.splice(index, 1)
Splice(hs, i) == SubSeq(hs, 1, i - 1) \o SubSeq(hs, i + 1, Len(hs))

\* the closure returned by register(handler)
UnregisterResult(hs, h) ==
  LET index == IndexOf(hs, h)
  IN  IF index > 0 THEN Splice(hs, index) ELSE hs

\* One synchronous run of the for..of loop of handle() from array position i
\* up to the next await, the end of the array or an exception.
RECURSIVE Iterate(_, _, _)
Iterate(hs, i, error) ==
  IF i > Len(hs) THEN [ev |-> <<>>, i |-> i, out |-> "end", cur |-> "-"]
  ELSE IF CanHandle(hs[i], error)
    THEN [ev |-> <<Event("can", hs[i], ""), Event("handle", hs[i], "")>>,
          i |-> i + 1,
          out |-> IF HandleResult(hs[i]) = "throw" THEN "threw" ELSE "await",
          cur |-> hs[i]]
    ELSE LET rest == Iterate(hs, i + 1, error)
         IN  [rest EXCEPT !.ev = <<Event("can", hs[i], "")>> \o rest.ev]

\* the default report at the end of handle()
DefaultReport(show, fn, error) ==
  IF show
  THEN [ev |-> <<Event("report", fn, error.message)>>,
        out |-> IF fn = "mThrow" THEN "threw" ELSE "completed"]
  ELSE [ev |-> <<>>, out |-> "completed"]

\* handle() from array position i until it suspends or returns
RunHandle(d, hs, show, fn) ==
  LET it == Iterate(hs, d.i, d.error)
      rep == DefaultReport(show, fn, d.error)
  IN  IF it.out = "end"
      THEN [d EXCEPT !.pc = rep.out, !.i = it.i, !.cur = "-",
                     !.trace = d.trace \o it.ev \o rep.ev]
      ELSE [d EXCEPT !.pc = it.out, !.i = it.i, !.cur = it.cur,
                     !.trace = d.trace \o it.ev]

\* variant that runs the chain even when hideErrorTip is set
StartHandle_ignoreHide(error, hideErrorTip, hs, show, fn) ==
  RunHandle([error |-> error, hide |-> hideErrorTip, pc |-> "start", i |-> 1,
             cur |-> "-", trace |-> <<>>, mutated |-> FALSE, list |-> hs],
            hs, show, fn)

\* ErrorHandlerManager.handle(error, hideErrorTip) up to its first await
StartHandle(error, hideErrorTip, hs, show, fn) ==
  LET d0 == [error |-> error, hide |-> hideErrorTip, pc |-> "start", i |-> 1,
             cur |-> "-", trace |-> <<>>, mutated |-> FALSE, list |-> hs]
  IN  IF hideErrorTip THEN [d0 EXCEPT !.pc = "hidden"]
      ELSE RunHandle(d0, hs, show, fn)

\* variant that ignores shouldStop
ResumeHandle_noStop(d, hs, show, fn) == RunHandle(d, hs, show, fn)

\* continuation of handle() after `await handler.handle(error)`
ResumeHandle(d, hs, show, fn) ==
  IF HandleResult(d.cur) = "true"
  THEN [d EXCEPT !.pc = "stopped", !.cur = "-"]
  ELSE RunHandle(d, hs, show, fn)

Running(d) == d.pc = "await"

\* a suspended dispatch observes that the array changed under it
MarkMutated(d, changed) ==
  IF changed /\ Running(d) THEN [d EXCEPT !.mutated = TRUE] ELSE d

NoError == BusinessError(None, "", None, None, FALSE, FALSE)
NoDispatch ==
  [error |-> NoError, hide |-> FALSE, pc |-> "none", i |-> 1, cur |-> "-",
   trace |-> <<>>, mutated |-> FALSE, list |-> <<>>]

\* the facade before any call
NoConfig == [returnData |-> None, hideErrorTip |-> FALSE, skipBusinessCheck |-> FALSE]
NoOutcome == [kind |-> "none", status |-> 0, body |-> None, error |-> None]

IdleCall ==
  [pc |-> "idle", cfg |-> NoConfig, outcome |-> NoOutcome, settled |-> "pending",
   value |-> [k |-> "none", v |-> None], failure |-> None, unauthorized |-> "nothing",
   sent |-> None, log |-> <<>>, chainRequest |-> <<>>, chainResponse |-> <<>>,
   behind |-> 0]

IdleFacade ==
  [variant |-> "none", returnData |-> None, onUnauthorized |-> FALSE,
   parser |-> "default", errorMessages |-> None, hasLocation |-> FALSE,
   requestInterceptor |-> "none", addedRequest |-> <<>>, addedResponse |-> <<>>]

\* request identifiers, and the empty pendingRequests map (0: no entry)
CancelIds == {"X", "Y"}
NoEntries == [id \in CancelIds |-> 0]

ChainErrors ==
  { BusinessError(Some(1), "test", None, None, FALSE, FALSE),
    BusinessError(Some(10001), "Error occurred", None, None, FALSE, FALSE) }

\* A call and the execution of handle() it started.  The variables call and
\* dispatch hold the pair that took a step last; others holds the remaining
\* pairs whose promise is pending or whose handle() is suspended at an await.
Pair(c, d) == [call |-> c, dispatch |-> d]
InFlight(p) ==
  p.call.pc \in {"intercepting", "awaitInterceptor", "sent", "awaitHandle"}
    \/ Running(p.dispatch)
Latest == Pair(call, dispatch)
Load == Len(others) + (IF InFlight(Latest) THEN 1 ELSE 0)
\* position 0 is the latest pair
Target(t) == IF t = 0 THEN Latest ELSE others[t]
\* others once a new pair has become the latest
Shelve == IF InFlight(Latest) THEN Append(others, Latest) ELSE others
\* others once the pair at position t has become the latest
Swap(t) ==
  IF t = 0 THEN others
  ELSE IF InFlight(Latest) THEN [others EXCEPT ![t] = Latest]
  ELSE Splice(others, t)
\* every suspended handle() iterates the one live array
MarkAll(os, changed) ==
  IF os = <<>> THEN <<>>
  ELSE [k \in 1..Len(os) |-> [os[k] EXCEPT !.dispatch = MarkMutated(@, changed)]]

Register(h) ==
  /\ Len(closures) < MaxRegs
  /\ handlers' = Append(handlers, h)
  /\ closures' = Append(closures, h)
  /\ dispatch' = MarkMutated(dispatch, TRUE)
  /\ others' = MarkAll(others, TRUE)
  /\ UNCHANGED <<showDefaultMessage, messageHandler, invoked>>

Unregister(r) ==
  /\ r \in 1..Len(closures)
  /\ handlers' = UnregisterResult(handlers, closures[r])
  /\ invoked' = invoked \cup {r}
  /\ dispatch' = MarkMutated(dispatch, handlers' # handlers)
  /\ others' = MarkAll(others, handlers' # handlers)
  /\ UNCHANGED <<closures, showDefaultMessage, messageHandler>>

\* variant that resets the flag to the constructor default when it is not given
UpdateConfigFlag_reset(config, show) ==
  IF config.showMessage # None THEN config.showMessage[1] ELSE TRUE

UpdateConfigFlag(config, show) ==
  IF config.showMessage # None THEN config.showMessage[1] ELSE show

UpdateConfigFn(config, fn) ==
  IF config.messageHandler # None THEN config.messageHandler[1] ELSE fn

UpdateConfig(config) ==
  /\ showDefaultMessage' = UpdateConfigFlag(config, showDefaultMessage)
  /\ messageHandler' = UpdateConfigFn(config, messageHandler)
  /\ UNCHANGED <<handlers, closures, dispatch, others, invoked>>

\* errorManager.handle(error, hideErrorTip), also while earlier executions are
\* suspended at `await handler.handle(error)`
Handle(error, hideErrorTip) ==
  /\ Load = 0 \/ (Load + 1) * Len(closures) <= MaxLoad
  /\ call' = IdleCall
  /\ dispatch' = StartHandle(error, hideErrorTip, handlers, showDefaultMessage, messageHandler)
  /\ others' = Shelve
  /\ UNCHANGED <<handlers, closures, showDefaultMessage, messageHandler, invoked>>

\* the awaited handler of the execution at position t has settled
Resume(t) ==
  /\ t \in 0..Len(others)
  /\ Running(Target(t).dispatch)
  /\ call' = Target(t).call
  /\ dispatch' = ResumeHandle(Target(t).dispatch, handlers, showDefaultMessage,
                              messageHandler)
  /\ others' = Swap(t)
  /\ UNCHANGED <<handlers, closures, showDefaultMessage, messageHandler, invoked>>

CtorConfigs == [showMessage : Opt(BOOLEAN), messageHandler : Opt(CtorMessageFns)]
Configs == [showMessage : Opt(BOOLEAN), messageHandler : Opt(UpdateMessageFns)]

InitChain ==
  /\ handlers = <<>>
  /\ closures = <<>>
  /\ invoked = {}
  /\ dispatch = NoDispatch
  /\ others = <<>>
  /\ \E config \in CtorConfigs :
       \* constructor(config?): showMessage ?? true, messageHandler ?? console.error
       /\ showDefaultMessage = UpdateConfigFlag(config, TRUE)
       /\ messageHandler = UpdateConfigFn(config, "console.error")
  /\ inst = IdleFacade
  /\ call = IdleCall
  /\ fin = None
  /\ fout = None
  /\ pendingRequests = NoEntries
  /\ calls = <<>>
  /\ jobs = <<>>

RegisterStep ==
  /\ Load <= 1 \/ Load * (Len(closures) + 1) <= MaxLoad
  /\ \E h \in HandlerObjs : Register(h)
UnregisterStep == \E r \in 1..Len(closures) : Unregister(r)
UpdateConfigStep == \E config \in Configs : UpdateConfig(config)
HandleStep == \E error \in ChainErrors, hideErrorTip \in BOOLEAN : Handle(error, hideErrorTip)
ResumeStep == \E t \in 0..Len(others) : Resume(t)

NextChain ==
  \/ RegisterStep /\ UNCHANGED <<facadeVars, factoryVars, cancelVars>>
  \/ UnregisterStep /\ UNCHANGED <<facadeVars, factoryVars, cancelVars>>
  \/ UpdateConfigStep /\ UNCHANGED <<facadeVars, factoryVars, cancelVars>>
  \/ HandleStep /\ UNCHANGED <<inst, factoryVars, cancelVars>>
  \/ ResumeStep /\ UNCHANGED <<inst, factoryVars, cancelVars>>

SpecChain == InitChain /\ [][NextChain]_vars

(***************************************************************************)
(* Request facade: response interceptors and resolveReturnData             *)
(*   variant "generic": core/request.ts, class Request<DefaultReturnData>  *)
(*   variant "parser" : core/request.ts, class Request with responseParser *)
(*   variant "simple" : src/src/request/index.ts                           *)
(*   variant "monolith": src/request/index.ts                              *)
(***************************************************************************)
MaxFacadeRegs == 1    \* registerErrorHandler calls per behaviour of the facade
MaxFacadeLoad == 1    \* calls in flight at once, times (registrations + 1)
MaxAdded == 1         \* interceptors added to an instance of variant "simple"

\* the first error factory (errors/error-factory.ts): fixed messages, only the
\* body's message field is read
createBusinessErrorFromAxiosLegacy(error) ==
  LET isNetworkError == IF error.message = None THEN FALSE
                        ELSE Includes(error.message[1], "Network Error")
      isTimeoutError == IF error.message = None THEN FALSE
                        ELSE Includes(error.message[1], "timeout")
      httpStatus == IF error.response # None
                    THEN Some(error.response[1].status) ELSE None
      code == IF error.response # None THEN error.response[1].status ELSE -1
      responseData == IF error.response # None THEN error.response[1].data ELSE None
      byStatus == IF error.response # None
                    /\ StatusKey(error.response[1].status) \in DOMAIN DEFAULT_HTTP_ERROR_MESSAGES
                    /\ error.response[1].status \in
                         {400, 401, 403, 404, 405, 408, 429, 500, 502, 503, 504}
                  THEN DEFAULT_HTTP_ERROR_MESSAGES[StatusKey(error.response[1].status)]
                  ELSE IF error.response # None
                       THEN RequestErrorText(error.response[1].status)
                       ELSE "Unknown error"
      branchMessage ==
        IF error.response # None THEN
          IF responseData # None /\ TruthyStr(responseData[1].message)
          THEN responseData[1].message[1] ELSE byStatus
        ELSE IF error.request THEN "No response from server"
        ELSE IF TruthyStr(error.message) THEN error.message[1]
        ELSE "Request failed"
      afterNetwork == IF isNetworkError
                      THEN "Network error, please check your connection"
                      ELSE branchMessage
      errorMessage == IF isTimeoutError
                      THEN "Request timed out, please try again later"
                      ELSE afterNetwork
  IN  BusinessError(Some(code), errorMessage, None, httpStatus,
                    isNetworkError, isTimeoutError)

\* Request.createBusinessError of src/request/index.ts: five fixed status
\* messages, the body's message field, then the network / timeout overrides
createBusinessError(error) ==
  LET isNetworkError == IF error.message = None THEN FALSE
                        ELSE Includes(error.message[1], "Network Error")
      isTimeoutError == IF error.message = None THEN FALSE
                        ELSE Includes(error.message[1], "timeout")
      httpStatus == IF error.response # None
                    THEN Some(error.response[1].status) ELSE None
      code == IF error.response # None THEN error.response[1].status ELSE -1
      responseData == IF error.response # None THEN error.response[1].data ELSE None
      byStatus == IF error.response = None THEN "Unknown error"
                  ELSE IF error.response[1].status \in {400, 401, 403, 404, 500}
                  THEN DEFAULT_HTTP_ERROR_MESSAGES[StatusKey(error.response[1].status)]
                  ELSE RequestErrorText(error.response[1].status)
      branchMessage ==
        IF error.response # None THEN
          IF responseData # None /\ TruthyStr(responseData[1].message)
          THEN responseData[1].message[1] ELSE byStatus
        ELSE IF error.request THEN "No response from server"
        ELSE IF TruthyStr(error.message) THEN error.message[1]
        ELSE "Request failed"
      afterNetwork == IF isNetworkError
                      THEN "Network error, please check your connection"
                      ELSE branchMessage
      errorMessage == IF isTimeoutError
                      THEN "Request timed out, please try again later"
                      ELSE afterNetwork
  IN  BusinessError(Some(code), errorMessage, None, httpStatus,
                    isNetworkError, isTimeoutError)

\* Response parsers: defaultResponseParser ("default"), the parser of the
\* integration tests ("alwaysOk": isSuccess () => true, getData res => res,
\* getMessage () => 'success', getCode () => 0) and a caller's parser that
\* ignores the code field ("hasData": isSuccess res => res.data !== undefined,
\* getData res => res.data, getMessage res => res.message, getCode () => -2)
ParserIsSuccess(parser, body) ==
  CASE parser = "alwaysOk" -> TRUE
    [] parser = "hasData" -> body.data # None
    [] OTHER -> body.code = Some(0)
ParserGetCode(parser, body) ==
  CASE parser = "alwaysOk" -> Some(0)
    [] parser = "hasData" -> Some(-2)
    [] OTHER -> body.code
ParserGetMessage(parser, body) ==
  IF parser = "alwaysOk" THEN Some("success") ELSE body.message
\* the value getData returns: a field value (possibly undefined) or the body
ParserGetData(parser, body) ==
  IF parser = "alwaysOk" THEN [k |-> "body", v |-> Some(body)]
  ELSE [k |-> "data", v |-> body.data]

\* constructor: `returnData = true` when the option is not given
DefaultReturnData(i) == IF i.returnData = None THEN TRUE ELSE i.returnData[1]

\* variant that uses || where the code uses ??
ShouldReturnData_or(i, cfg) ==
  IF cfg.returnData # None /\ cfg.returnData[1] THEN TRUE ELSE DefaultReturnData(i)

\* config.returnData ?? this.defaultReturnData
ShouldReturnData(i, cfg) ==
  IF cfg.returnData # None THEN cfg.returnData[1] ELSE DefaultReturnData(i)

\* Request.resolveReturnData; body is response.data (None when null)
resolveReturnData(i, cfg, body) ==
  IF ShouldReturnData(i, cfg) THEN
    IF i.variant \in {"generic", "monolith"} THEN
      IF body # None /\ body[1].data # None
      THEN [k |-> "data", v |-> body[1].data]
      ELSE [k |-> "body", v |-> body]
    ELSE
      IF body # None THEN ParserGetData(i.parser, body[1])
      ELSE [k |-> "body", v |-> body]
  ELSE [k |-> "body", v |-> body]

\* variant whose parser branch reads the code field instead of isSuccess
IsBusinessFailure_codeOnly(i, body) ==
  IF i.variant \in {"generic", "monolith"} THEN
    body # None /\ body[1].code # None /\ body[1].code # Some(0)
  ELSE
    body # None /\ body[1].code # Some(0)

\* does the success interceptor take the business-failure branch
IsBusinessFailure(i, body) ==
  IF i.variant \in {"generic", "monolith"} THEN
    body # None /\ body[1].code # None /\ body[1].code # Some(0)
  ELSE IF i.variant = "parser" THEN
    body # None /\ ~ParserIsSuccess(i.parser, body[1])
  ELSE
    body # None /\ body[1].code # Some(0)

\* the error built in the business-failure branch
BusinessFailureError(i, status, body) ==
  IF i.variant \in {"generic", "monolith"} THEN
    createBusinessErrorFromResponse(body[1].code, body[1].message, body[1].data, Some(status))
  ELSE IF i.variant = "parser" THEN
    createBusinessErrorFromResponse(
      ParserGetCode(i.parser, body[1]), ParserGetMessage(i.parser, body[1]),
      ParserGetData(i.parser, body[1]).v, Some(status))
  ELSE
    BusinessError(body[1].code,
                  IF body[1].message = None THEN "" ELSE body[1].message[1],
                  body[1].data, None, FALSE, FALSE)

Resolved(value) == [settled |-> "resolved", value |-> value, failure |-> None]
Rejected(error) ==
  [settled |-> "rejected", value |-> [k |-> "error", v |-> error], failure |-> Some(error)]
Threw(what) ==
  [settled |-> "rejected", value |-> [k |-> "exception", v |-> what], failure |-> None]

\* variant that lets hideErrorTip swallow the business failure
InterceptSuccess_hideResolves(i, cfg, status, body) ==
  IF i.variant # "simple" /\ ~cfg.skipBusinessCheck /\ IsBusinessFailure(i, body)
     /\ ~cfg.hideErrorTip
  THEN Rejected(BusinessFailureError(i, status, body))
  ELSE Resolved(resolveReturnData(i, cfg, body))

\* variant that tests the business code before skipBusinessCheck
InterceptSuccess_checkFirst(i, cfg, status, body) ==
  IF i.variant # "simple" /\ IsBusinessFailure(i, body)
  THEN Rejected(BusinessFailureError(i, status, body))
  ELSE Resolved(resolveReturnData(i, cfg, body))

\* the response success interceptor (followed, in variant "simple", by the
\* unwrapping of Request.request)
InterceptSuccess(i, cfg, status, body) ==
  IF i.variant = "simple" THEN
    IF cfg.skipBusinessCheck THEN Resolved([k |-> "body", v |-> body])
    ELSE IF body = None THEN Threw("TypeError")
    ELSE IF IsBusinessFailure(i, body)
      THEN Rejected(BusinessFailureError(i, status, body))
    ELSE Resolved([k |-> "data", v |-> body[1].data])
  ELSE
    IF cfg.skipBusinessCheck THEN Resolved(resolveReturnData(i, cfg, body))
    ELSE IF IsBusinessFailure(i, body)
      THEN Rejected(BusinessFailureError(i, status, body))
    ELSE Resolved(resolveReturnData(i, cfg, body))

\* the error built by the response error interceptor
TransportError(i, error) ==
  IF i.variant = "parser" THEN createBusinessErrorFromAxios(error, i.errorMessages)
  ELSE IF i.variant = "monolith" THEN createBusinessError(error)
  ELSE createBusinessErrorFromAxiosLegacy(error)

\* effect of the 401 branch: "callback", "redirect" or "nothing"
\* variant that treats every failure carrying a response as unauthorized
UnauthorizedAction_anyStatus(i, businessError) ==
  IF businessError.httpStatus = None THEN "nothing"
  ELSE IF i.onUnauthorized THEN "callback"
  ELSE IF i.variant = "monolith" THEN (IF i.hasLocation THEN "redirect" ELSE "throw")
  ELSE IF i.variant = "generic" /\ i.hasLocation THEN "redirect"
  ELSE "nothing"

\* "throw": src/request/index.ts assigns window.location.href without testing
\* for window, which raises a ReferenceError where there is none
UnauthorizedAction(i, businessError) ==
  IF businessError.httpStatus # Some(401) THEN "nothing"
  ELSE IF i.onUnauthorized THEN "callback"
  ELSE IF i.variant = "monolith" THEN (IF i.hasLocation THEN "redirect" ELSE "throw")
  ELSE IF i.variant = "generic" /\ i.hasLocation THEN "redirect"
  ELSE "nothing"

\* what the error interceptor does, in order, before it awaits the chain; the
\* ReferenceError leaves it before handle() is called
ErrorInterceptorLog(i, businessError) ==
  CASE UnauthorizedAction(i, businessError) = "nothing" -> <<"handle">>
    [] UnauthorizedAction(i, businessError) = "throw" -> <<>>
    [] OTHER -> <<UnauthorizedAction(i, businessError), "handle">>

\* what the awaiting error interceptor rejects with once handle() has settled
FailureSettlement(d, businessError) ==
  IF d.pc = "threw" THEN Threw("handler exception")
  ELSE Rejected(businessError)

SuccessBodies ==
  { None,
    Some([code |-> Some(0), data |-> Some("payload"), message |-> Some("ok")]),
    Some([code |-> Some(0), data |-> None, message |-> Some("ok")]),
    Some([code |-> Some(1001), data |-> Some("null"), message |-> Some("insufficient balance")]),
    Some([code |-> Some(401), data |-> None, message |-> Some("")]),
    Some([code |-> None, data |-> Some("payload"), message |-> None]),
    Some([code |-> None, data |-> None, message |-> None]) }

FacadeFailures ==
  { [message |-> Some("Request failed"),
     response |-> Some([status |-> 404,
        data |-> Some([message |-> Some("not found"), msg |-> None, error |-> None])]),
     request |-> TRUE],
    [message |-> Some("Request failed"),
     response |-> Some([status |-> 401, data |-> None]), request |-> TRUE],
    [message |-> Some("Network Error"), response |-> None, request |-> TRUE],
    [message |-> Some("interceptor boom"), response |-> None, request |-> FALSE] }

\* 2xx responses the transport hands to the success interceptor: every body
\* with status 200, two of them with status 201 as well
SuccessResponses ==
  [status : {200}, body : SuccessBodies]
  \cup [status : {201},
        body : { Some([code |-> Some(0), data |-> Some("payload"), message |-> Some("ok")]),
                 Some([code |-> Some(401), data |-> None, message |-> Some("")]) }]

\* per-call options: every returnData with the other two unset, and each of
\* hideErrorTip and skipBusinessCheck with returnData unset and false
CallConfigs ==
  [returnData : Opt(BOOLEAN), hideErrorTip : {FALSE}, skipBusinessCheck : {FALSE}]
  \cup [returnData : {None, Some(FALSE)}, hideErrorTip : {TRUE}, skipBusinessCheck : {FALSE}]
  \cup [returnData : {None, Some(FALSE)}, hideErrorTip : {FALSE}, skipBusinessCheck : {TRUE}]

\* the request configuration axios hands to the request interceptor
OutgoingConfig == [url |-> "/x", headers |-> "none"]

\* the request interceptor the class installs itself: src/src/request/index.ts
\* writes its fixed token into the Authorization header of every request
OwnRequestInterceptor(i, config) ==
  IF i.variant = "simple"
  THEN [config EXCEPT !.headers = "Bearer <hard-coded token>"]
  ELSE config

\* what the caller's requestInterceptor returns for a configuration: "addToken"
\* returns { ...config, headers: token }, "fail" throws (or its promise
\* rejects), and no interceptor leaves the configuration alone
RequestInterceptorResult(i, config) ==
  CASE i.requestInterceptor = "addToken" -> Some([config EXCEPT !.headers = "Bearer t"])
    [] i.requestInterceptor = "fail" -> None
    [] OTHER -> Some(config)

\* the exception a failing requestInterceptor raises: no config, no response,
\* no request
InterceptorFailure ==
  [message |-> Some("interceptor boom"), response |-> None, request |-> FALSE]

\* interceptors a caller adds to an instance of src/src/request/index.ts
\* after construction: a request interceptor that returns the configuration
\* with a token of its own or throws, a response interceptor that returns the
\* response it was given
AddedRequestKinds == {"addToken", "fail"}
AddedResponseKinds == {"pass"}

FailsAdded(chain) == \E k \in 1..Len(chain) : chain[k] = "fail"

\* axios runs the request interceptors last added first, up to the first one
\* that throws: the number of added request interceptors that run
ExecutedRequest(chain) ==
  IF FailsAdded(chain)
  THEN Len(chain) + 1
         - (CHOOSE k \in 1..Len(chain) :
              chain[k] = "fail" /\ \A j \in (k + 1)..Len(chain) : chain[j] # "fail")
  ELSE Len(chain)

\* the configuration the added request interceptors hand on when none throws
AddedRequestResult(chain, config) ==
  IF \E k \in 1..Len(chain) : chain[k] = "addToken"
  THEN [config EXCEPT !.headers = "Bearer t"]
  ELSE config

Times(n, x) == [k \in 1..n |-> x]

\* Object.assign(config, modifiedConfig)
ObjectAssign(config, modifiedConfig) ==
  [k \in DOMAIN config \cup DOMAIN modifiedConfig |->
     IF k \in DOMAIN modifiedConfig THEN modifiedConfig[k] ELSE config[k]]

Instances ==
  { [variant |-> "simple", returnData |-> None, onUnauthorized |-> FALSE,
     parser |-> "default", errorMessages |-> None, hasLocation |-> FALSE,
     requestInterceptor |-> "none",
     addedRequest |-> <<>>, addedResponse |-> <<>>] }
  \cup
  { [variant |-> "generic", returnData |-> rd, onUnauthorized |-> FALSE,
     parser |-> "default", errorMessages |-> None, hasLocation |-> TRUE,
     requestInterceptor |-> "none",
     addedRequest |-> <<>>, addedResponse |-> <<>>] :
       rd \in Opt(BOOLEAN) }
  \cup
  { [variant |-> "generic", returnData |-> None, onUnauthorized |-> ou,
     parser |-> "default", errorMessages |-> None, hasLocation |-> ~ou,
     requestInterceptor |-> "none",
     addedRequest |-> <<>>, addedResponse |-> <<>>] :
       ou \in BOOLEAN }
  \cup
  { [variant |-> "monolith", returnData |-> None, onUnauthorized |-> ou,
     parser |-> "default", errorMessages |-> None, hasLocation |-> TRUE,
     requestInterceptor |-> "none",
     addedRequest |-> <<>>, addedResponse |-> <<>>] :
       ou \in BOOLEAN }
  \cup
  { [variant |-> "monolith", returnData |-> None, onUnauthorized |-> FALSE,
     parser |-> "default", errorMessages |-> None, hasLocation |-> FALSE,
     requestInterceptor |-> "none",
     addedRequest |-> <<>>, addedResponse |-> <<>>] }
  \cup
  { [variant |-> "parser", returnData |-> rd, onUnauthorized |-> FALSE,
     parser |-> "default", errorMessages |-> Some([s404 |-> "custom 404"]),
     hasLocation |-> TRUE, requestInterceptor |-> "none",
     addedRequest |-> <<>>, addedResponse |-> <<>>] :
       rd \in {None, Some(FALSE)} }
  \cup
  { [variant |-> "parser", returnData |-> None, onUnauthorized |-> TRUE,
     parser |-> "default", errorMessages |-> Some([s404 |-> "custom 404"]),
     hasLocation |-> TRUE, requestInterceptor |-> "none",
     addedRequest |-> <<>>, addedResponse |-> <<>>] }
  \cup
  { [variant |-> "parser", returnData |-> None, onUnauthorized |-> FALSE,
     parser |-> ps, errorMessages |-> Some([s404 |-> "custom 404"]),
     hasLocation |-> TRUE, requestInterceptor |-> "none",
     addedRequest |-> <<>>, addedResponse |-> <<>>] :
       ps \in {"alwaysOk", "hasData"} }
  \cup
  { [variant |-> "parser", returnData |-> None, onUnauthorized |-> FALSE,
     parser |-> "default", errorMessages |-> Some([s404 |-> "custom 404"]),
     hasLocation |-> TRUE, requestInterceptor |-> ri,
     addedRequest |-> <<>>, addedResponse |-> <<>>] :
       ri \in {"addToken", "fail"} }

\* defaultErrorHandler options given to the constructor: none, reporting
\* switched off, or a reporting function that raises
FacadeCtorConfigs ==
  { [showMessage |-> None, messageHandler |-> None],
    [showMessage |-> Some(FALSE), messageHandler |-> None],
    [showMessage |-> None, messageHandler |-> Some("mThrow")] }

\* the instances constructed with every option but defaultErrorHandler left
\* out: the ones the defaultErrorHandler options are combined with
DefaultOptions(i) ==
  /\ i.variant # "simple"
  /\ i.returnData = None
  /\ ~i.onUnauthorized
  /\ i.parser = "default"
  /\ i.requestInterceptor = "none"
  /\ i.hasLocation

\* messageHandler ?? console.error; src/request/index.ts: ?? message.error
DefaultMessageFn(i) ==
  IF i.variant = "monolith" THEN "message.error" ELSE "console.error"

Init ==
  /\ inst \in Instances
  /\ call = IdleCall
  /\ handlers = <<>>
  /\ closures = <<>>
  /\ invoked = {}
  /\ dispatch = NoDispatch
  /\ others = <<>>
  /\ \E config \in FacadeCtorConfigs :
       /\ DefaultOptions(inst) \/ config = [showMessage |-> None, messageHandler |-> None]
       /\ showDefaultMessage = UpdateConfigFlag(config, TRUE)
       /\ messageHandler = UpdateConfigFn(config, DefaultMessageFn(inst))
  /\ fin = None
  /\ fout = None
  /\ pendingRequests = NoEntries
  /\ calls = <<>>
  /\ jobs = <<>>

\* Request.registerErrorHandler
RegisterErrorHandler(h) ==
  /\ inst.variant # "simple"
  /\ Len(closures) < MaxFacadeRegs
  /\ others = <<>> \/ (Len(others) + 1) * (Len(closures) + 2) <= MaxFacadeLoad
  /\ Register(h)

\* Request.addRequestInterceptor(onFulfilled) of src/src/request/index.ts
AddRequestInterceptor(kind) ==
  /\ inst.variant = "simple"
  /\ Len(inst.addedRequest) + Len(inst.addedResponse) < MaxAdded
  /\ inst' = [inst EXCEPT !.addedRequest = Append(@, kind)]

\* Request.addResponseInterceptor(onFulfilled) of src/src/request/index.ts
AddResponseInterceptor(kind) ==
  /\ inst.variant = "simple"
  /\ Len(inst.addedRequest) + Len(inst.addedResponse) < MaxAdded
  /\ inst' = [inst EXCEPT !.addedResponse = Append(@, kind)]

\* the calls whose request interceptors have not run yet
Intercepting ==
  {t \in 0..Len(others) : Target(t).call.pc = "intercepting"}

\* a request interceptor has run: the calls issued after it move up
Advance(os) ==
  IF os = <<>> THEN <<>>
  ELSE [k \in 1..Len(os) |->
          IF os[k].call.pc = "intercepting" /\ os[k].call.behind > 0
          THEN [os[k] EXCEPT !.call.behind = @ - 1] ELSE os[k]]

\* Request.request(config), also while earlier calls are in flight: axios takes
\* the interceptors registered at this moment and runs them, and then the
\* transport, in later jobs of the promise chain; nothing is sent in the step
\* of request().  Interceptors that do not wait for a function of the caller
\* run in the order of the calls
Issue(cfg) ==
  /\ Load = 0 \/ (Load + 1) * (Len(closures) + 1) <= MaxFacadeLoad
  /\ inst.variant = "simple" => (cfg.returnData = None /\ ~cfg.hideErrorTip)
  /\ call' = [IdleCall EXCEPT !.pc = "intercepting", !.cfg = cfg,
                !.chainRequest = inst.addedRequest,
                !.chainResponse = inst.addedResponse,
                !.behind = IF inst.requestInterceptor = "none"
                           THEN Cardinality(Intercepting) ELSE 0]
  /\ dispatch' = NoDispatch
  /\ others' = Shelve

\* the success interceptor has started handle() for a business failure of call
\* c and returned Promise.reject(error): the rejection has not reached the
\* promise of the call yet
Rejecting(c) == c.pc = "sent" /\ c.failure # None

\* the continuation of an error interceptor whose handle() has returned, and
\* the rejection returned by a success interceptor on its way to the promise of
\* the call, are jobs of the microtask queue: no response is delivered before
\* they have run
NoPendingSettle ==
  \A t \in 0..Len(others) :
    /\ ~(/\ Target(t).call.pc = "awaitHandle"
         /\ Target(t).dispatch.pc \in {"hidden", "stopped", "completed", "threw"})
    /\ ~Rejecting(Target(t).call)

\* the transport delivers a 2xx response to the call at position t: response
\* success interceptor, then the added response interceptors when it returned
\* the response.  For a business failure the generic, parser and monolith
\* interceptors call errorManager.handle() without awaiting it and return
\* Promise.reject(error): handle() has started and the call is still pending
RespondSuccess(t, status, body) ==
  /\ t \in 0..Len(others)
  /\ Target(t).call.pc = "sent"
  /\ NoPendingSettle
  /\ LET c == Target(t).call
         r == InterceptSuccess(inst, c.cfg, status, body)
         outcome == [kind |-> "response", status |-> status,
                     body |-> body, error |-> None]
     IN  IF r.failure # None /\ inst.variant # "simple"
         THEN /\ call' = [c EXCEPT !.failure = r.failure, !.outcome = outcome,
                                   !.log = c.log \o <<"handle">>]
              /\ dispatch' = StartHandle(r.failure[1], c.cfg.hideErrorTip,
                                         handlers, showDefaultMessage, messageHandler)
         ELSE /\ call' = [c EXCEPT !.pc = "settled", !.settled = r.settled,
                                   !.value = r.value, !.failure = r.failure,
                                   !.outcome = outcome,
                                   !.log = IF r.settled = "resolved"
                                           THEN c.log \o Times(Len(c.chainResponse),
                                                                "responseInterceptor")
                                           ELSE c.log]
              /\ dispatch' = Target(t).dispatch
  /\ others' = Swap(t)

\* the rejection returned by the success interceptor reaches the promise of the
\* call at position t, some jobs after the interceptor returned: handle() may
\* have gone on meanwhile, or still wait for a handler
RejectBusinessFailure(t) ==
  /\ t \in 0..Len(others)
  /\ Rejecting(Target(t).call)
  /\ LET c == Target(t).call
         r == InterceptSuccess(inst, c.cfg, c.outcome.status, c.outcome.body)
     IN  call' = [c EXCEPT !.pc = "settled", !.settled = r.settled, !.value = r.value]
  /\ dispatch' = Target(t).dispatch
  /\ others' = Swap(t)

\* the response error interceptor of the call at position t up to its await;
\* config is error.config, None when the failure carries no configuration, and
\* pre is what ran before
ErrorInterceptor(t, error, config, pre) ==
  LET c == Target(t).call
      outcome == [kind |-> "error", status |-> 0, body |-> None, error |-> Some(error)]
  IN  /\ IF inst.variant = "simple"
         THEN /\ call' = [c EXCEPT !.pc = "settled", !.settled = "rejected",
                            !.value = [k |-> "axios", v |-> error],
                            !.outcome = outcome, !.log = c.log \o pre]
              /\ dispatch' = Target(t).dispatch
         ELSE LET businessError == TransportError(inst, error)
              IN  IF UnauthorizedAction(inst, businessError) = "throw"
                  THEN /\ call' = [c EXCEPT !.pc = "settled",
                                     !.settled = Threw("ReferenceError").settled,
                                     !.value = Threw("ReferenceError").value,
                                     !.unauthorized = "throw",
                                     !.outcome = outcome,
                                     !.log = c.log \o pre
                                               \o ErrorInterceptorLog(inst, businessError)]
                       /\ dispatch' = Target(t).dispatch
                  ELSE /\ call' = [c EXCEPT !.pc = "awaitHandle",
                                     !.failure = Some(businessError),
                                     !.unauthorized = UnauthorizedAction(inst, businessError),
                                     !.outcome = outcome,
                                     !.log = c.log \o pre
                                               \o ErrorInterceptorLog(inst, businessError)]
                       /\ dispatch' = StartHandle(businessError,
                                        IF config = None THEN FALSE
                                        ELSE config[1].hideErrorTip,
                                        handlers, showDefaultMessage, messageHandler)
      /\ others' = IF c.pc = "intercepting" THEN Advance(Swap(t)) ELSE Swap(t)

\* the transport fails the call at position t: response error interceptor up
\* to its await
RespondFailure(t, error) ==
  /\ t \in 0..Len(others)
  /\ Target(t).call.pc = "sent"
  /\ NoPendingSettle
  /\ ErrorInterceptor(t, error, Some(Target(t).call.cfg), <<>>)

\* the request interceptors of the call at position t run: the added ones,
\* then the class's own.  With no requestInterceptor configured it returns the
\* configuration and the request is sent; otherwise it calls the caller's
\* requestInterceptor and suspends on what that returned.  An added
\* interceptor that throws skips the transport and reaches the response error
\* interceptor
RunRequestInterceptor(t) ==
  /\ t \in 0..Len(others)
  /\ Target(t).call.pc = "intercepting"
  /\ Target(t).call.behind = 0
  /\ LET c == Target(t).call
         added == Times(ExecutedRequest(c.chainRequest), "requestInterceptor")
         config == AddedRequestResult(c.chainRequest, OutgoingConfig)
     IN  IF FailsAdded(c.chainRequest)
         THEN ErrorInterceptor(t, InterceptorFailure, None, added)
         ELSE /\ call' = IF inst.requestInterceptor = "none"
                         THEN [c EXCEPT !.pc = "sent",
                                 !.sent = Some(OwnRequestInterceptor(inst, config)),
                                 !.log = c.log \o added \o <<"send">>]
                         ELSE [c EXCEPT !.pc = "awaitInterceptor",
                                 !.log = c.log \o added \o <<"requestInterceptor">>]
              /\ dispatch' = Target(t).dispatch
              /\ others' = Advance(Swap(t))

\* `await this.requestInterceptor(config)` of the call at position t has
\* settled: the request interceptor merges what it returned and the request is
\* sent, or its failure skips the transport and reaches the response error
\* interceptor
ResumeRequestInterceptor(t) ==
  /\ t \in 0..Len(others)
  /\ Target(t).call.pc = "awaitInterceptor"
  /\ LET c == Target(t).call
         config == AddedRequestResult(c.chainRequest, OutgoingConfig)
         r == RequestInterceptorResult(inst, config)
     IN  IF r = None
         THEN ErrorInterceptor(t, InterceptorFailure, None, <<>>)
         ELSE /\ call' = [c EXCEPT !.pc = "sent",
                            !.sent = Some(OwnRequestInterceptor(inst,
                                            ObjectAssign(config, r[1]))),
                            !.log = c.log \o <<"send">>]
              /\ dispatch' = Target(t).dispatch
              /\ others' = Swap(t)

\* `await this.errorManager.handle(...)` of the call at position t has
\* settled: reject the call
SettleFailure(t) ==
  /\ t \in 0..Len(others)
  /\ Target(t).call.pc = "awaitHandle"
  /\ Target(t).dispatch.pc \in {"hidden", "stopped", "completed", "threw"}
  /\ LET r == FailureSettlement(Target(t).dispatch, Target(t).call.failure[1])
     IN  call' = [Target(t).call EXCEPT !.pc = "settled", !.settled = r.settled,
                                        !.value = r.value]
  /\ dispatch' = Target(t).dispatch
  /\ others' = Swap(t)

\* handlers registered on a facade: one that stops, one that passes, one that
\* raises (hCode matches code 10001 only, which no response here carries)
FacadeHandlerObjs == {"hStop", "hPass", "hThrow"}

RegisterErrorHandlerStep == \E h \in FacadeHandlerObjs : RegisterErrorHandler(h)
AddRequestInterceptorStep == \E kind \in AddedRequestKinds : AddRequestInterceptor(kind)
AddResponseInterceptorStep == \E kind \in AddedResponseKinds : AddResponseInterceptor(kind)
IssueStep == \E cfg \in CallConfigs : Issue(cfg)
RespondSuccessStep ==
  \E t \in 0..Len(others), response \in SuccessResponses :
    RespondSuccess(t, response.status, response.body)
RespondFailureStep ==
  \E t \in 0..Len(others), error \in FacadeFailures : RespondFailure(t, error)
RunRequestInterceptorStep == \E t \in 0..Len(others) : RunRequestInterceptor(t)
ResumeRequestInterceptorStep == \E t \in 0..Len(others) : ResumeRequestInterceptor(t)
SettleFailureStep == \E t \in 0..Len(others) : SettleFailure(t)
RejectBusinessFailureStep == \E t \in 0..Len(others) : RejectBusinessFailure(t)

Next ==
  \/ RegisterErrorHandlerStep /\ UNCHANGED <<inst, call, factoryVars, cancelVars>>
  \/ UnregisterStep /\ UNCHANGED <<inst, call, factoryVars, cancelVars>>
  \/ AddRequestInterceptorStep /\ UNCHANGED <<call, chainVars, factoryVars, cancelVars>>
  \/ AddResponseInterceptorStep /\ UNCHANGED <<call, chainVars, factoryVars, cancelVars>>
  \/ IssueStep
       /\ UNCHANGED <<inst, handlers, closures, invoked, showDefaultMessage,
                      messageHandler, factoryVars, cancelVars>>
  \/ RespondSuccessStep
       /\ UNCHANGED <<inst, handlers, closures, invoked, showDefaultMessage,
                      messageHandler, factoryVars, cancelVars>>
  \/ RespondFailureStep
       /\ UNCHANGED <<inst, handlers, closures, invoked, showDefaultMessage,
                      messageHandler, factoryVars, cancelVars>>
  \/ RunRequestInterceptorStep
       /\ UNCHANGED <<inst, handlers, closures, invoked, showDefaultMessage,
                      messageHandler, factoryVars, cancelVars>>
  \/ ResumeRequestInterceptorStep
       /\ UNCHANGED <<inst, handlers, closures, invoked, showDefaultMessage,
                      messageHandler, factoryVars, cancelVars>>
  \/ SettleFailureStep
       /\ UNCHANGED <<inst, handlers, closures, invoked, showDefaultMessage,
                      messageHandler, factoryVars, cancelVars>>
  \/ RejectBusinessFailureStep
       /\ UNCHANGED <<inst, handlers, closures, invoked, showDefaultMessage,
                      messageHandler, factoryVars, cancelVars>>
  \/ ResumeStep /\ UNCHANGED <<inst, factoryVars, cancelVars>>

Spec == Init /\ [][Next]_vars

(***************************************************************************)
(* Error factory applied to enumerated transport failures                  *)
(***************************************************************************)
FailureTexts ==
  {"Network Error", "timeout of 5ms exceeded", "Request failed", "network error",
   "Network Error: timeout", ""}
DefaultStatuses == {400, 401, 403, 404, 405, 408, 429, 500, 502, 503, 504}
FailureStatuses == DefaultStatuses \cup {418}
FailureBodies ==
  [message : Opt({"", "not found"}), msg : Opt({"", "msg text"}), error : Opt({"error text"})]
AxiosErrors ==
  [message : Opt(FailureTexts),
   response : Opt([status : FailureStatuses, data : Opt(FailureBodies)]),
   request : BOOLEAN]
CustomMessages ==
  { None,
    Some([s404 |-> "custom 404"]),
    Some([s401 |-> "please sign in", s500 |-> "", networkError |-> "offline",
          timeoutError |-> "too slow"]),
    Some([s418 |-> "teapot", noResponse |-> "silent server",
          defaultError |-> "custom failure"]),
    Some([s400 |-> "c400", s401 |-> "c401", s403 |-> "c403", s404 |-> "c404",
          s405 |-> "c405", s408 |-> "c408", s429 |-> "c429", s500 |-> "c500",
          s502 |-> "c502", s503 |-> "c503", s504 |-> "c504"]) }

InitFactory ==
  /\ \/ \E error \in AxiosErrors, custom \in CustomMessages :
          fin = Some([kind |-> "axios", error |-> error, custom |-> custom])
     \/ \E error \in AxiosErrors :
          fin = Some([kind |-> "legacy", error |-> error, custom |-> None])
  /\ fout = None
  /\ handlers = <<>>
  /\ closures = <<>>
  /\ invoked = {}
  /\ dispatch = NoDispatch
  /\ others = <<>>
  /\ showDefaultMessage = TRUE
  /\ messageHandler = "console.error"
  /\ inst = IdleFacade
  /\ call = IdleCall
  /\ pendingRequests = NoEntries
  /\ calls = <<>>
  /\ jobs = <<>>

CreateFromAxios ==
  /\ fin # None
  /\ fin[1].kind = "axios"
  /\ fout = None
  /\ fout' = Some(createBusinessErrorFromAxios(fin[1].error, fin[1].custom))
  /\ UNCHANGED fin

\* the factory of errors/error-factory.ts, which takes no message table
CreateFromAxiosLegacy ==
  /\ fin # None
  /\ fin[1].kind = "legacy"
  /\ fout = None
  /\ fout' = Some(createBusinessErrorFromAxiosLegacy(fin[1].error))
  /\ UNCHANGED fin

NextFactory ==
  \/ CreateFromAxios /\ UNCHANGED <<chainVars, facadeVars, cancelVars>>
  \/ CreateFromAxiosLegacy /\ UNCHANGED <<chainVars, facadeVars, cancelVars>>

SpecFactory == InitFactory /\ [][NextFactory]_vars

(***************************************************************************)
(* The cancellable facade (packages/request/src/request.ts).  Its message  *)
(* literals are Chinese; each is rendered here by an English gloss.  A      *)
(* cancel token is identified with the call it was created for.             *)
(***************************************************************************)
MaxCalls == 3         \* calls issued per behaviour of the cancellable facade

\* "请求被取消": message of the Error every cancelled call rejects with
CANCELLED_TEXT == "request was cancelled"
\* "请求被手动取消": default of cancelRequest's message parameter
MANUAL_CANCEL_TEXT == "request was cancelled manually"
\* `重复请求: ${config.requestId}`
DuplicateText(id) ==
  IF id = "X" THEN "duplicate request: X" ELSE "duplicate request: Y"

\* the switch of handleRequestError
StatusText(statusCode) ==
  CASE statusCode = 400 -> "bad request parameters"
    [] statusCode = 401 -> "unauthorized, please login again"
    [] statusCode = 403 -> "access denied"
    [] statusCode = 404 -> "requested resource does not exist"
    [] statusCode = 500 -> "internal server error"
    [] OTHER -> RequestErrorText(statusCode)

\* Request.handleRequestError
handleRequestError(error) ==
  LET statusCode == IF error.response # None THEN error.response[1].status ELSE 500
      branch ==
        IF error.response # None THEN
          IF error.response[1].data # None
               /\ TruthyStr(error.response[1].data[1].message)
          THEN error.response[1].data[1].message[1]
          ELSE StatusText(statusCode)
        ELSE IF error.request THEN "server did not respond"
        ELSE IF TruthyStr(error.message) THEN error.message[1]
        ELSE "request failed"
      afterNetwork ==
        IF error.message # None /\ Includes(error.message[1], "Network Error")
        THEN "network error, please check your connection" ELSE branch
      errorMessage ==
        IF error.message # None /\ Includes(error.message[1], "timeout")
        THEN "request timed out, please retry later" ELSE afterNetwork
  IN  [data |-> None, code |-> statusCode, message |-> errorMessage, success |-> FALSE]

\* per-call options: requestId, cancelPrevious, returnData, hideErrorTip, and
\* whether the caller passed an AbortSignal of its own (AxiosRequestConfig.signal)
CancelCallConfigs ==
  { [requestId |-> Some("X"), cancelPrevious |-> FALSE, returnData |-> None,
     hideErrorTip |-> FALSE, signal |-> FALSE],
    [requestId |-> Some("X"), cancelPrevious |-> TRUE, returnData |-> Some(FALSE),
     hideErrorTip |-> TRUE, signal |-> TRUE],
    [requestId |-> Some("Y"), cancelPrevious |-> FALSE, returnData |-> Some(TRUE),
     hideErrorTip |-> FALSE, signal |-> FALSE],
    [requestId |-> None, cancelPrevious |-> TRUE, returnData |-> None,
     hideErrorTip |-> FALSE, signal |-> FALSE] }

CancelMessages == {None, Some("user cancelled the request")}

\* the calls of cancelRequest that are made: one with a message of the
\* caller's, one that leaves the message to the default
CancelRequests == {<<"X", Some("user cancelled the request")>>, <<"Y", None>>}

CancelFailures ==
  { [message |-> Some("Request failed"),
     response |-> Some([status |-> 404,
        data |-> Some([message |-> Some("not found"), msg |-> None, error |-> None])]),
     request |-> TRUE] }

NewCall(cfg) ==
  [ cfg |-> cfg, pc |-> "issued", cancelled |-> None, delivered |-> FALSE,
    failure |-> None, settled |-> "pending",
    kind |-> "none", message |-> "", shown |-> None ]

\* no answer of the transport has been taken for call c: it waits for its
\* request interceptor, for its dispatch, for the transport, or for the job
\* that takes the answer the transport has given
Unanswered(cs, c) == cs[c].pc \in {"issued", "intercepted", "sent", "arrived"}

\* CancelTokenSource.cancel(message) on the token of call c: the token keeps
\* its first reason.  Before the request is dispatched, and again when the
\* transport's answer is taken, the token is what dispatchRequest tests
\* first, so it prevails over an aborted signal; a request in the transport
\* is notified in a later job, and a request already rejected by a
\* cancellation ignores it.  Once the transport's answer has been taken the
\* token is not consulted any more: the call goes on to its response
\* interceptor
CancelCall(cs, c, by, reason) ==
  IF /\ Unanswered(cs, c)
     /\ ~cs[c].delivered
     /\ (cs[c].cancelled = None \/ cs[c].cancelled[1].by = "signal")
  THEN [cs EXCEPT ![c].cancelled = Some([by |-> by, reason |-> reason])]
  ELSE cs

\* AbortController.abort() on the signal of call c.  A request in the
\* transport is rejected at once with the signal's cancellation, also when a
\* token was cancelled earlier and has not notified the request yet.  Before
\* the request is dispatched, and once the transport has answered (it has
\* dropped its listener on the signal), the signal is only marked as aborted,
\* and a cancelled token prevails; after the answer has been taken it has no
\* effect
AbortCall(cs, c) ==
  IF ~Unanswered(cs, c) \/ cs[c].delivered THEN cs
  ELSE IF cs[c].pc = "sent"
    THEN [cs EXCEPT ![c].cancelled = Some([by |-> "signal", reason |-> "canceled"]),
                    ![c].delivered = TRUE]
  ELSE IF cs[c].cancelled = None
    THEN [cs EXCEPT ![c].cancelled = Some([by |-> "signal", reason |-> "canceled"])]
  ELSE cs

\* jobs of the promise chain of a call: its request interceptor, then the
\* dispatch of its request
Job(kind, c) == [job |-> kind, c |-> c]

\* verb methods / request(): the call is handed to axios; its request
\* interceptor runs in a later microtask
IssueCancellable(cfg) ==
  /\ Len(calls) < MaxCalls
  /\ calls' = Append(calls, NewCall(cfg))
  /\ jobs' = Append(jobs, Job("interceptor", Len(calls) + 1))
  /\ UNCHANGED pendingRequests

\* Request.handleCancelRequest for call c (requestId given)
handleCancelRequest(reg, cs, c) ==
  LET id == cs[c].cfg.requestId[1]
  IN  [ reg |-> [reg EXCEPT ![id] = c],
        cs |-> IF cs[c].cfg.cancelPrevious /\ reg[id] # 0
               THEN CancelCall(cs, reg[id], "token", DuplicateText(id))
               ELSE cs ]

\* the request interceptor of call c, after which the dispatch of the request
\* is the next job of the call's promise chain
RequestInterceptor(c) ==
  /\ c \in 1..Len(calls)
  /\ jobs # <<>>
  /\ Head(jobs) = Job("interceptor", c)
  /\ LET r == IF calls[c].cfg.requestId # None
              THEN handleCancelRequest(pendingRequests, calls, c)
              ELSE [reg |-> pendingRequests, cs |-> calls]
     IN  /\ pendingRequests' = r.reg
         /\ calls' = [r.cs EXCEPT ![c].pc = "intercepted"]
  /\ jobs' = Append(Tail(jobs), Job("dispatch", c))

\* the request of call c is dispatched: it is handed to the transport, or it
\* is rejected there and then when its token is cancelled or its signal
\* aborted
Dispatch(c) ==
  /\ c \in 1..Len(calls)
  /\ jobs # <<>>
  /\ Head(jobs) = Job("dispatch", c)
  /\ calls' = [calls EXCEPT ![c].pc = "sent",
                            ![c].delivered = (calls[c].cancelled # None)]
  /\ jobs' = Tail(jobs)
  /\ UNCHANGED pendingRequests

\* pendingRequests.delete(config.requestId) of the response interceptors
DeleteEntry(reg, cfg) ==
  IF cfg.requestId # None THEN [reg EXCEPT ![cfg.requestId[1]] = 0] ELSE reg

\* the transport answers the request of call c with a 2xx response: no
\* cancellation has reached the request.  The answer is taken in a later job
AnswerOk(c) ==
  /\ c \in 1..Len(calls)
  /\ calls[c].pc = "sent"
  /\ calls[c].cancelled = None
  /\ calls' = [calls EXCEPT ![c].pc = "arrived"]
  /\ UNCHANGED <<pendingRequests, jobs>>

\* the transport fails the request of call c with a failure that is not a
\* cancellation
AnswerError(c, error) ==
  /\ c \in 1..Len(calls)
  /\ calls[c].pc = "sent"
  /\ calls[c].cancelled = None
  /\ calls' = [calls EXCEPT ![c].pc = "arrived", ![c].failure = Some(error)]
  /\ UNCHANGED <<pendingRequests, jobs>>

\* the job that takes the transport's answer for call c: it tests the token,
\* then the signal, and rejects the request with the cancellation it finds
\* (the answer is dropped); otherwise the answer goes on to the response
\* interceptors
TakeAnswer(c) ==
  /\ c \in 1..Len(calls)
  /\ calls[c].pc = "arrived"
  /\ calls' = IF calls[c].cancelled # None
              THEN [calls EXCEPT ![c].pc = "sent", ![c].delivered = TRUE,
                                 ![c].failure = None]
              ELSE [calls EXCEPT ![c].pc = "answered"]
  /\ UNCHANGED <<pendingRequests, jobs>>

\* response success interceptor of call c
RespondOk(c) ==
  /\ c \in 1..Len(calls)
  /\ calls[c].pc = "answered"
  /\ calls[c].failure = None
  /\ pendingRequests' = DeleteEntry(pendingRequests, calls[c].cfg)
  /\ calls' = [calls EXCEPT ![c].pc = "settled", ![c].settled = "resolved",
                 ![c].kind = IF calls[c].cfg.returnData # Some(FALSE)
                             THEN "data" ELSE "response"]
  /\ UNCHANGED jobs

\* response error interceptor of call c for a failure that is not a cancellation
RespondError(c) ==
  /\ c \in 1..Len(calls)
  /\ calls[c].pc = "answered"
  /\ calls[c].failure # None
  /\ pendingRequests' = DeleteEntry(pendingRequests, calls[c].cfg)
  /\ LET errorResponse == handleRequestError(calls[c].failure[1])
     IN  calls' = [calls EXCEPT ![c].pc = "settled", ![c].settled = "rejected",
                     ![c].kind = "HttpResponse",
                     ![c].message = errorResponse.message,
                     ![c].shown = IF calls[c].cfg.hideErrorTip THEN None
                                  ELSE Some(errorResponse.message)]
  /\ UNCHANGED jobs

\* the cancelled token notifies the request of call c, which is rejected
\* with the token's reason
DeliverCancel(c) ==
  /\ c \in 1..Len(calls)
  /\ calls[c].pc = "sent"
  /\ calls[c].cancelled # None
  /\ ~calls[c].delivered
  /\ calls' = [calls EXCEPT ![c].delivered = TRUE]
  /\ UNCHANGED <<pendingRequests, jobs>>

\* response error interceptor of call c, axios.isCancel(error) branch
RespondCancelled(c) ==
  /\ c \in 1..Len(calls)
  /\ calls[c].pc = "sent"
  /\ calls[c].cancelled # None
  /\ calls[c].delivered
  /\ calls' = [calls EXCEPT ![c].pc = "settled", ![c].settled = "rejected",
                 ![c].kind = "Error", ![c].message = CANCELLED_TEXT]
  /\ UNCHANGED <<pendingRequests, jobs>>

\* Request.cancelRequest(requestId, message)
cancelRequest(requestId, message) ==
  IF pendingRequests[requestId] # 0
  THEN /\ calls' = CancelCall(calls, pendingRequests[requestId], "token",
                              IF message = None THEN MANUAL_CANCEL_TEXT ELSE message[1])
       /\ pendingRequests' = [pendingRequests EXCEPT ![requestId] = 0]
  ELSE UNCHANGED <<pendingRequests, calls>>

\* the caller aborts the AbortSignal it passed with call c
AbortSignal(c) ==
  /\ c \in 1..Len(calls)
  /\ calls[c].cfg.signal
  /\ Unanswered(calls, c)
  /\ ~calls[c].delivered
  /\ calls' = AbortCall(calls, c)
  /\ UNCHANGED <<pendingRequests, jobs>>

InitCancel ==
  /\ pendingRequests = NoEntries
  /\ calls = <<>>
  /\ jobs = <<>>
  /\ handlers = <<>>
  /\ closures = <<>>
  /\ invoked = {}
  /\ dispatch = NoDispatch
  /\ others = <<>>
  /\ showDefaultMessage = TRUE
  /\ messageHandler = "console.error"
  /\ inst = IdleFacade
  /\ call = IdleCall
  /\ fin = None
  /\ fout = None

IssueCancellableStep == \E cfg \in CancelCallConfigs : IssueCancellable(cfg)
RequestInterceptorStep == \E c \in 1..MaxCalls : RequestInterceptor(c)
DispatchStep == \E c \in 1..MaxCalls : Dispatch(c)
AnswerOkStep == \E c \in 1..MaxCalls : AnswerOk(c)
AnswerErrorStep == \E c \in 1..MaxCalls, error \in CancelFailures : AnswerError(c, error)
TakeAnswerStep == \E c \in 1..MaxCalls : TakeAnswer(c)
RespondOkStep == \E c \in 1..MaxCalls : RespondOk(c)
RespondErrorStep == \E c \in 1..MaxCalls : RespondError(c)
DeliverCancelStep == \E c \in 1..MaxCalls : DeliverCancel(c)
RespondCancelledStep == \E c \in 1..MaxCalls : RespondCancelled(c)
CancelRequestStep ==
  /\ \E r \in CancelRequests : cancelRequest(r[1], r[2])
  /\ UNCHANGED jobs
AbortSignalStep == \E c \in 1..MaxCalls : AbortSignal(c)

NextCancel ==
  \/ IssueCancellableStep /\ UNCHANGED <<chainVars, facadeVars, factoryVars>>
  \/ RequestInterceptorStep /\ UNCHANGED <<chainVars, facadeVars, factoryVars>>
  \/ DispatchStep /\ UNCHANGED <<chainVars, facadeVars, factoryVars>>
  \/ AnswerOkStep /\ UNCHANGED <<chainVars, facadeVars, factoryVars>>
  \/ AnswerErrorStep /\ UNCHANGED <<chainVars, facadeVars, factoryVars>>
  \/ TakeAnswerStep /\ UNCHANGED <<chainVars, facadeVars, factoryVars>>
  \/ RespondOkStep /\ UNCHANGED <<chainVars, facadeVars, factoryVars>>
  \/ RespondErrorStep /\ UNCHANGED <<chainVars, facadeVars, factoryVars>>
  \/ DeliverCancelStep /\ UNCHANGED <<chainVars, facadeVars, factoryVars>>
  \/ RespondCancelledStep /\ UNCHANGED <<chainVars, facadeVars, factoryVars>>
  \/ CancelRequestStep /\ UNCHANGED <<chainVars, facadeVars, factoryVars>>
  \/ AbortSignalStep /\ UNCHANGED <<chainVars, facadeVars, factoryVars>>

SpecCancel == InitCancel /\ [][NextCancel]_vars

(***************************************************************************)
(* Properties of the error factory                                         *)
(***************************************************************************)
NoBodyMessage(data) ==
  data = None \/ (data[1].message = None /\ data[1].msg = None /\ data[1].error = None)

PlainStatusFailure(error) ==
  /\ error.response # None
  /\ error.response[1].status \in DefaultStatuses
  /\ NoBodyMessage(error.response[1].data)
  /\ \/ error.message = None
     \/ /\ ~Includes(error.message[1], "Network Error")
        /\ ~Includes(error.message[1], "timeout")

\* C10: a transport failure with a status that has a built-in default message,
\* a response body without message/msg/error and a failure text that is neither
\* a network error nor a timeout yields the caller's override for that status
\* when one is configured and the built-in default otherwise.
C10_StatusDefaultOrOverride ==
  (fout # None /\ fin[1].kind = "axios" /\ PlainStatusFailure(fin[1].error)) =>
    LET key == StatusKey(fin[1].error.response[1].status)
        custom == fin[1].custom
    IN  fout[1].message =
          IF custom # None /\ key \in DOMAIN custom[1]
          THEN custom[1][key]
          ELSE DEFAULT_HTTP_ERROR_MESSAGES[key]

C10_Witness ==
  /\ fout # None
  /\ PlainStatusFailure(fin[1].error)
  /\ fin[1].error.response[1].status = 404
  /\ fin[1].custom = Some([s404 |-> "custom 404"])
  /\ fout[1].message = "custom 404"

\* the failure text sets neither flag
FlagFree(error) ==
  \/ error.message = None
  \/ /\ ~Includes(error.message[1], "Network Error")
     /\ ~Includes(error.message[1], "timeout")

\* the message configured under a key: the caller's override, else the default
Configured(custom, key) ==
  IF custom # None /\ key \in DOMAIN custom[1] THEN custom[1][key]
  ELSE DEFAULT_HTTP_ERROR_MESSAGES[key]

\* C11 (as claimed): for a transport failure with a response (and a failure
\* text that sets neither flag) a non-empty body message is the resulting
\* message; when message is absent a non-empty msg is; when message and msg are
\* both absent a non-empty error is.
C11_BodyMessagePriority ==
  ( /\ fout # None
    /\ fin[1].error.response # None
    /\ fin[1].error.response[1].data # None
    /\ FlagFree(fin[1].error) ) =>
      LET d == fin[1].error.response[1].data[1]
      IN  /\ TruthyStr(d.message) => fout[1].message = d.message[1]
          /\ (d.message = None /\ TruthyStr(d.msg)) => fout[1].message = d.msg[1]
          /\ (d.message = None /\ d.msg = None /\ TruthyStr(d.error)) =>
                fout[1].message = d.error[1]

\* C12 (as claimed): with a response, code and httpStatus are the response
\* status; without one, code is -1 and httpStatus is absent, and (for a failure
\* text that sets neither flag) the message is the configured no-response
\* message when a request exists, else the failure's own message, else the
\* generic "Request failed".
C12_FirstMatchBranches ==
  (fout # None) =>
    LET error == fin[1].error
    IN  /\ error.response # None =>
              /\ fout[1].code = Some(error.response[1].status)
              /\ fout[1].httpStatus = Some(error.response[1].status)
        /\ error.response = None =>
              /\ fout[1].code = Some(-1)
              /\ fout[1].httpStatus = None
        /\ (error.response = None /\ FlagFree(error)) =>
              fout[1].message =
                IF error.request THEN Configured(fin[1].custom, "noResponse")
                ELSE IF TruthyStr(error.message) THEN error.message[1]
                ELSE "Request failed"

\* C12 (amended): as C12, except that the generic message used when the
\* failure has neither response nor request and an empty text is the configured
\* default-error message ("Unknown error" unless overridden) in the factory
\* that takes a message table, and "Request failed" in the factory that takes
\* none.
C12_FirstMatchBranchesAmended ==
  (fout # None) =>
    LET error == fin[1].error
    IN  /\ error.response # None =>
              /\ fout[1].code = Some(error.response[1].status)
              /\ fout[1].httpStatus = Some(error.response[1].status)
        /\ error.response = None =>
              /\ fout[1].code = Some(-1)
              /\ fout[1].httpStatus = None
        /\ (error.response = None /\ FlagFree(error)) =>
              fout[1].message =
                IF error.request THEN Configured(fin[1].custom, "noResponse")
                ELSE IF TruthyStr(error.message) THEN error.message[1]
                ELSE IF fin[1].kind = "axios"
                  THEN Configured(fin[1].custom, "defaultError")
                ELSE "Request failed"

\* neither response nor request, empty failure text, custom default-error text
C12_Witness ==
  /\ fout # None
  /\ fin[1].kind = "axios"
  /\ fin[1].error.response = None
  /\ ~fin[1].error.request
  /\ fin[1].error.message = Some("")
  /\ fin[1].custom # None
  /\ "defaultError" \in DOMAIN fin[1].custom[1]
  /\ fout[1].code = Some(-1)
  /\ fout[1].message = "custom failure"

\* C13: isNetworkError is true exactly when the failure text contains
\* "Network Error" and isTimeoutError exactly when it contains "timeout", in
\* every branch; a set timeout flag makes the message the configured timeout
\* message, and a set network flag alone the configured network message,
\* whatever the status default and the response body are.
C13_FlagsAndOverride ==
  (fout # None) =>
    LET error == fin[1].error
        net == error.message # None /\ Includes(error.message[1], "Network Error")
        tmo == error.message # None /\ Includes(error.message[1], "timeout")
    IN  /\ fout[1].isNetworkError = net
        /\ fout[1].isTimeoutError = tmo
        /\ tmo => fout[1].message = Configured(fin[1].custom, "timeoutError")
        /\ (net /\ ~tmo) => fout[1].message = Configured(fin[1].custom, "networkError")

\* both flags set on a failure that has a response with a body message
C13_Witness ==
  /\ fout # None
  /\ fin[1].kind = "axios"
  /\ fin[1].error.message = Some("Network Error: timeout")
  /\ fin[1].error.response # None
  /\ fin[1].error.response[1].data # None
  /\ fin[1].error.response[1].data[1].message = Some("not found")
  /\ fin[1].custom # None
  /\ "timeoutError" \in DOMAIN fin[1].custom[1]
  /\ fout[1].isNetworkError
  /\ fout[1].isTimeoutError
  /\ fout[1].message = "too slow"

(***************************************************************************)
(* Properties of the ErrorHandlerManager                                   *)
(***************************************************************************)
Cans(tr) == SelectSeq(tr, LAMBDA e : e.k = "can")
Reports(tr) == SelectSeq(tr, LAMBDA e : e.k = "report")
Considered(tr) == [k \in 1..Len(Cans(tr)) |-> Cans(tr)[k].h]

\* C4: a dispatch made with hideErrorTip true executes no canHandle, no handle
\* and no message handler, whatever the error and the registered handlers are.
C4_HideSuppressesAll ==
  (dispatch.pc # "none" /\ dispatch.hide) =>
    (dispatch.pc = "hidden" /\ dispatch.trace = <<>>)

C4_Witness ==
  /\ dispatch.pc = "hidden"
  /\ dispatch.hide
  /\ showDefaultMessage
  /\ \E i \in 1..Len(handlers) : handlers[i] = "hPass"
  /\ dispatch.list = handlers

\* C6: in a dispatch that is not suppressed the handlers are considered in
\* registration order, handle runs only for handlers whose canHandle is true,
\* and after the first truthy handle result nothing else runs (no later
\* canHandle or handle, no default report).
C6_ChainOrder ==
  (dispatch.pc \notin {"none", "hidden"}) =>
    LET tr == dispatch.trace
        considered == Considered(tr)
    IN  /\ ~dispatch.mutated =>
             /\ Len(considered) <= Len(dispatch.list)
             /\ considered = SubSeq(dispatch.list, 1, Len(considered))
        /\ \A p \in 1..Len(tr) :
             tr[p].k = "handle" =>
               /\ p > 1
               /\ tr[p - 1].k = "can"
               /\ tr[p - 1].h = tr[p].h
               /\ CanHandle(tr[p].h, dispatch.error)
        /\ \A p \in 1..Len(tr) :
             (tr[p].k = "can" /\ CanHandle(tr[p].h, dispatch.error)) =>
               (p < Len(tr) /\ tr[p + 1].k = "handle")
        /\ \A p \in 1..Len(tr) :
             (tr[p].k = "handle" /\ HandleResult(tr[p].h) = "true"
                /\ dispatch.pc # "await") => p = Len(tr)
        /\ dispatch.pc = "stopped" =>
             /\ tr # <<>>
             /\ tr[Len(tr)].k = "handle"
             /\ HandleResult(tr[Len(tr)].h) = "true"

\* the scenario of the spec: H1 does not match, H2 matches and stops
C6_Witness ==
  /\ dispatch.pc = "stopped"
  /\ ~dispatch.mutated
  /\ showDefaultMessage
  /\ dispatch.list = <<"hCode", "hStop">>
  /\ dispatch.trace = <<Event("can", "hCode", ""), Event("can", "hStop", ""),
                        Event("handle", "hStop", "")>>

\* C7 (as claimed): whenever a dispatch that is not suppressed ends without a
\* handler having returned a truthy result, the message-reporting function has
\* been invoked exactly once with error.message if showDefaultMessage is true
\* and not at all if it is false.
C7_ReportOnceUnlessStopped ==
  [][ (dispatch' # dispatch /\ dispatch'.pc \in {"completed", "threw"}) =>
        Reports(dispatch'.trace) =
          IF showDefaultMessage
          THEN <<Event("report", messageHandler, dispatch'.error.message)>>
          ELSE <<>> ]_vars

\* registrations whose closure has not been invoked, in registration order
LiveRegistrations ==
  LET idx == SelectSeq([r \in 1..Len(closures) |-> r], LAMBDA r : r \notin invoked)
  IN  [k \in 1..Len(idx) |-> closures[idx[k]]]

\* C8 (as claimed): the closure of a registration removes exactly that
\* registration, once; so the handler array always holds exactly the handlers
\* of the registrations whose closure was never invoked, in registration order.
C8_UnregisterExactlyOwn == handlers = LiveRegistrations

\* C9: updateConfig replaces the flag only when showMessage is given and the
\* reporting function only when messageHandler is given, leaves the handler
\* array untouched, and every later default report uses the current flag and
\* function.
C9_UpdateConfigFrame ==
  [][ /\ \A config \in Configs :
           UpdateConfig(config) =>
             /\ handlers' = handlers
             /\ showDefaultMessage' =
                  IF config.showMessage = None THEN showDefaultMessage
                  ELSE config.showMessage[1]
             /\ messageHandler' =
                  IF config.messageHandler = None THEN messageHandler
                  ELSE config.messageHandler[1]
      /\ (dispatch' # dispatch /\ Reports(dispatch'.trace) # <<>>) =>
           /\ showDefaultMessage
           /\ Reports(dispatch'.trace)[1].h = messageHandler ]_vars

\* m2 can only have been installed by updateConfig
C9_Witness ==
  /\ messageHandler = "m2"
  /\ handlers # <<>>
  /\ dispatch.list = handlers
  /\ Reports(dispatch.trace) = <<Event("report", "m2", dispatch.error.message)>>

(***************************************************************************)
(* Properties of the cancellable facade                                    *)
(***************************************************************************)
\* call c was registered under identifier id by its request interceptor, no
\* answer has been taken for its request and it is not cancelled
InFlightUnder(c, id) ==
  /\ calls[c].pc \in {"intercepted", "sent", "arrived"}
  /\ calls[c].cfg.requestId = Some(id)
  /\ calls[c].cancelled = None

\* C16 (as claimed): when the request interceptor of a call B with a requestId
\* and cancelPrevious runs, every other call in flight under that identifier is
\* cancelled and B itself is not touched and becomes the registered call; a
\* cancelled call settles only by rejecting with the cancellation Error; and
\* when a call with a requestId settles by success or by failure its
\* identifier is absent from pendingRequests.
C16_CancelPreviousCancelsInFlight ==
  [][ /\ \A b \in 1..Len(calls) :
           ( /\ RequestInterceptor(b)
             /\ calls[b].cfg.requestId # None
             /\ calls[b].cfg.cancelPrevious ) =>
               LET id == calls[b].cfg.requestId[1]
               IN  /\ \A a \in 1..Len(calls) :
                         (a # b /\ InFlightUnder(a, id)) => calls'[a].cancelled # None
                   /\ calls'[b].cancelled = calls[b].cancelled
                   /\ pendingRequests'[id] = b
      /\ \A c \in 1..Len(calls) :
           (calls[c].pc # "settled" /\ calls'[c].pc = "settled") =>
             /\ calls[c].cancelled # None =>
                  (calls'[c].settled = "rejected" /\ calls'[c].kind = "Error")
             /\ (calls[c].cancelled = None /\ calls[c].cfg.requestId # None) =>
                  pendingRequests'[calls[c].cfg.requestId[1]] = 0 ]_vars

\* C17 (as claimed): an identifier under which no call is still in flight has
\* no entry in pendingRequests.
C17_NoEntryWithoutCallInFlight ==
  \A id \in CancelIds :
    (\A c \in 1..Len(calls) :
        calls[c].cfg.requestId = Some(id) => calls[c].pc = "settled") =>
      pendingRequests[id] = 0

\* C18 (as claimed): cancelRequest(requestId, message) with an entry present
\* cancels the call of that entry, removes that entry and no other, and leaves
\* every other call as it was; with no entry present it changes nothing.  A
\* cancelled call settles by rejecting with an Error, where a transport
\* failure rejects with an HttpResponse object and no call of this facade
\* rejects for a business code.
C18_CancelRequestScoped ==
  [][ /\ \A requestId \in CancelIds, message \in CancelMessages :
           cancelRequest(requestId, message) =>
             IF pendingRequests[requestId] # 0 THEN
               LET o == pendingRequests[requestId]
               IN  /\ pendingRequests' = [pendingRequests EXCEPT ![requestId] = 0]
                   /\ calls[o].pc # "settled" => calls'[o].cancelled # None
                   /\ Len(calls') = Len(calls)
                   /\ \A c \in 1..Len(calls) : c # o => calls'[c] = calls[c]
             ELSE pendingRequests' = pendingRequests /\ calls' = calls
      /\ \A c \in 1..Len(calls) :
           (calls[c].pc # "settled" /\ calls'[c].pc = "settled") =>
             /\ calls[c].cancelled # None =>
                  (calls'[c].settled = "rejected" /\ calls'[c].kind = "Error")
             /\ calls[c].cancelled = None =>
                  calls'[c].kind \in {"data", "response", "HttpResponse"} ]_vars

\* C19 (as claimed): a call cancelled through cancelRequest rejects with an
\* error whose message is the message given to cancelRequest, or the default
\* manual-cancel message when none was given.
C19_RejectsWithGivenMessage ==
  \A c \in 1..Len(calls) :
    ( /\ calls[c].pc = "settled"
      /\ calls[c].cancelled # None
      /\ calls[c].cancelled[1].by = "token"
      /\ calls[c].cancelled[1].reason \notin {DuplicateText(id) : id \in CancelIds} ) =>
        /\ calls[c].settled = "rejected"
        /\ calls[c].message = calls[c].cancelled[1].reason

\* C20 (as claimed): cancelRequest(requestId) run while a call issued with
\* that requestId has not yet reached a suspension point (its request
\* interceptor has not run) cancels that call.
C20_ImmediateCancelCancels ==
  [][ \A requestId \in CancelIds, message \in CancelMessages :
        cancelRequest(requestId, message) =>
          \A c \in 1..Len(calls) :
            (calls[c].pc = "issued" /\ calls[c].cfg.requestId = Some(requestId)) =>
              calls'[c].cancelled # None ]_vars

\* C21 (as claimed): no two calls that are in flight and not cancelled were
\* registered under the same request identifier, whether or not they were
\* issued with cancelPrevious.
C21_AtMostOneLiveToken ==
  \A id \in CancelIds :
    \A a \in 1..Len(calls), c \in 1..Len(calls) :
      (InFlightUnder(a, id) /\ InFlightUnder(c, id)) => a = c

\* C29 (as claimed): when a call settles by success or by failure, the entry of
\* pendingRequests that belongs to another call still in flight is left in
\* place, so that call stays reachable by cancelRequest.
C29_SettlementRemovesOnlyOwnEntry ==
  [][ \A c \in 1..Len(calls) :
        ( /\ calls[c].pc # "settled"
          /\ calls'[c].pc = "settled"
          /\ calls[c].cancelled = None ) =>
            \A id \in CancelIds :
              ( /\ pendingRequests[id] # 0
                /\ pendingRequests[id] # c
                /\ InFlightUnder(pendingRequests[id], id) ) =>
                  pendingRequests'[id] = pendingRequests[id] ]_vars

(***************************************************************************)
(* Properties of the facade                                                *)
(***************************************************************************)
GotResponse == call.pc = "settled" /\ call.outcome.kind = "response"

\* the { code, data, message } convention is in force: built-in check or
\* defaultResponseParser
DefaultConvention == inst.variant \in {"generic", "simple"} \/ inst.parser = "default"

\* callConfig.returnData ?? instanceDefault ?? true
EffectiveReturnData ==
  IF call.cfg.returnData # None THEN call.cfg.returnData[1]
  ELSE IF inst.returnData # None THEN inst.returnData[1]
  ELSE TRUE

\* equality of settled values: same kind, then same content
SameValue(a, b) == a.k = b.k /\ a.v = b.v

\* C1: under the envelope convention a transport-successful response whose
\* body carries a code that is present and not 0 rejects the call when
\* skipBusinessCheck is not set, whatever returnData, hideErrorTip and the
\* registered handlers are.
C1_BusinessFailureRejects ==
  ( /\ GotResponse
    /\ DefaultConvention
    /\ ~call.cfg.skipBusinessCheck
    /\ call.outcome.body # None
    /\ call.outcome.body[1].code # None
    /\ call.outcome.body[1].code # Some(0) ) =>
      call.settled = "rejected"

C1_Witness ==
  /\ GotResponse
  /\ call.settled = "rejected"
  /\ call.outcome.body # None
  /\ call.outcome.body[1].code = Some(1001)
  /\ call.cfg.hideErrorTip
  /\ call.cfg.returnData = Some(FALSE)
  /\ handlers = <<"hStop">>

\* C2: an envelope { code: 0, data, message } never rejects; the call resolves
\* with envelope.data when the effective returnData (per-call value, else the
\* instance value, else true) is true and with the whole envelope when false.
C2_SuccessResolves ==
  ( /\ GotResponse
    /\ inst.variant \in {"generic", "parser"}
    /\ DefaultConvention
    /\ call.outcome.body # None
    /\ call.outcome.body[1].code = Some(0)
    /\ call.outcome.body[1].data # None ) =>
      /\ call.settled = "resolved"
      /\ SameValue(call.value,
                   IF EffectiveReturnData
                   THEN [k |-> "data", v |-> call.outcome.body[1].data]
                   ELSE [k |-> "body", v |-> call.outcome.body])

C2_Witness ==
  /\ GotResponse
  /\ call.outcome.body # None
  /\ call.outcome.body[1].code = Some(0)
  /\ inst.returnData = Some(TRUE)
  /\ call.cfg.returnData = Some(FALSE)
  /\ call.settled = "resolved"
  /\ SameValue(call.value, [k |-> "body", v |-> call.outcome.body])

\* C3: with skipBusinessCheck true a transport-successful response resolves the
\* call, builds no business error and dispatches no handler chain, also when
\* the envelope code is not 0.
C3_SkipNeverFails ==
  (GotResponse /\ call.cfg.skipBusinessCheck) =>
    /\ call.settled = "resolved"
    /\ call.failure = None
    /\ dispatch.pc = "none"

C3_Witness ==
  /\ GotResponse
  /\ call.cfg.skipBusinessCheck
  /\ call.outcome.body # None
  /\ call.outcome.body[1].code = Some(1001)
  /\ call.settled = "resolved"
  /\ handlers = <<"hStop">>
  /\ showDefaultMessage

\* C5 (as claimed): every call for which an ErrorObject was built, from a
\* business failure or a transport failure, rejects with that ErrorObject,
\* with hideErrorTip true as with hideErrorTip false.
C5_FailureRejectsWithErrorObject ==
  (call.pc = "settled" /\ call.failure # None) =>
    /\ call.settled = "rejected"
    /\ SameValue(call.value, [k |-> "error", v |-> call.failure[1]])

\* C14 (as claimed): on a transport failure with status 401 the unauthorized
\* callback runs when one was supplied, and nothing is done for the 401 when
\* none was supplied.
C14_UnauthorizedOnlyCallback ==
  ( /\ call.outcome.kind = "error"
    /\ call.failure # None
    /\ call.failure[1].httpStatus = Some(401) ) =>
      call.unauthorized = IF inst.onUnauthorized THEN "callback" ELSE "nothing"

\* C15: in the variants that build the error with createBusinessErrorFromResponse,
\* under the envelope convention, a 2xx response whose envelope code is present
\* and not 0 (skipBusinessCheck not set) rejects the call with an ErrorObject
\* whose code, data and httpStatus are the envelope code, the envelope data and
\* the HTTP status, whose message is the envelope message or "Request failed"
\* when that is empty, and whose two flags are false.
C15_BusinessErrorFields ==
  ( /\ GotResponse
    /\ inst.variant \in {"generic", "parser"}
    /\ DefaultConvention
    /\ ~call.cfg.skipBusinessCheck
    /\ call.outcome.body # None
    /\ call.outcome.body[1].code # None
    /\ call.outcome.body[1].code # Some(0) ) =>
      LET env == call.outcome.body[1]
          expected == [ code |-> env.code,
                        message |-> IF env.message = None \/ env.message = Some("")
                                    THEN "Request failed" ELSE env.message[1],
                        data |-> env.data,
                        httpStatus |-> Some(call.outcome.status),
                        isNetworkError |-> FALSE,
                        isTimeoutError |-> FALSE ]
      IN  /\ call.settled = "rejected"
          /\ call.failure = Some(expected)
          /\ SameValue(call.value, [k |-> "error", v |-> expected])

\* an envelope with an empty message, answered with HTTP 201
C15_Witness ==
  /\ GotResponse
  /\ inst.variant = "generic"
  /\ call.outcome.status = 201
  /\ call.outcome.body # None
  /\ call.outcome.body[1].code = Some(401)
  /\ call.outcome.body[1].message = Some("")
  /\ call.failure # None
  /\ call.failure[1].message = "Request failed"
  /\ call.failure[1].httpStatus = Some(201)
  /\ call.settled = "rejected"

\* C22 (as claimed): with skipBusinessCheck true a transport-successful
\* response resolves the call with the full response body as received, not
\* with its data field, whatever the effective returnData is.
C22_SkipReturnsRawBody ==
  (GotResponse /\ call.cfg.skipBusinessCheck) =>
    /\ call.settled = "resolved"
    /\ SameValue(call.value, [k |-> "body", v |-> call.outcome.body])

\* C23 (as claimed): under the envelope convention a transport-successful
\* response whose body is an object without a code field resolves the call
\* when skipBusinessCheck is not set, and when the effective returnData is
\* true and the body has no data field either it resolves with the whole body.
C23_MalformedEnvelopeSucceeds ==
  ( /\ GotResponse
    /\ inst.variant \in {"generic", "parser"}
    /\ DefaultConvention
    /\ ~call.cfg.skipBusinessCheck
    /\ call.outcome.body # None
    /\ call.outcome.body[1].code = None ) =>
      /\ call.settled = "resolved"
      /\ (EffectiveReturnData /\ call.outcome.body[1].data = None) =>
           SameValue(call.value, [k |-> "body", v |-> call.outcome.body])

\* the call went through a failing requestInterceptor and has settled
InterceptorFailed ==
  /\ inst.requestInterceptor = "fail"
  /\ call.pc = "settled"

\* C24 (as claimed): a configured requestInterceptor has run to completion
\* before the request is sent and the request is sent with the configuration
\* it returned; when it fails the request is never sent and the call rejects
\* with an ErrorObject of code -1, without httpStatus, whose message is the
\* message of the interceptor's failure.
C24_InterceptorBeforeSend ==
  /\ (inst.requestInterceptor # "none" /\ call.sent # None) =>
       /\ Len(call.log) >= 2
       /\ SubSeq(call.log, 1, 2) = <<"requestInterceptor", "send">>
       /\ call.sent = RequestInterceptorResult(inst, OutgoingConfig)
  /\ (inst.requestInterceptor = "fail") =>
       /\ call.sent = None
       /\ \A p \in 1..Len(call.log) : call.log[p] # "send"
  /\ InterceptorFailed =>
       /\ call.settled = "rejected"
       /\ call.failure # None
       /\ call.failure[1].code = Some(-1)
       /\ call.failure[1].httpStatus = None
       /\ Some(call.failure[1].message) = InterceptorFailure.message
       /\ SameValue(call.value, [k |-> "error", v |-> call.failure[1]])

\* the message createBusinessErrorFromResponse gives an error
MessageOrDefault(message) ==
  IF TruthyStr(message) THEN message[1] ELSE "Request failed"

\* C25 (as claimed): in the variant with a responseParser, skipBusinessCheck
\* not set and a non-null body, isSuccess false rejects the call with an
\* ErrorObject whose code, message and data are getCode, getMessage and getData
\* of the body, and isSuccess true resolves it with getData(body) when the
\* effective returnData is true and with the body when it is false.
C25_CustomParserDecides ==
  ( /\ GotResponse
    /\ inst.variant = "parser"
    /\ ~call.cfg.skipBusinessCheck
    /\ call.outcome.body # None ) =>
      LET b == call.outcome.body[1]
          p == inst.parser
      IN  IF ~ParserIsSuccess(p, b)
          THEN /\ call.settled = "rejected"
               /\ call.failure # None
               /\ call.failure[1].code = ParserGetCode(p, b)
               /\ Some(call.failure[1].message) = ParserGetMessage(p, b)
               /\ call.failure[1].data = ParserGetData(p, b).v
               /\ SameValue(call.value, [k |-> "error", v |-> call.failure[1]])
          ELSE /\ call.settled = "resolved"
               /\ SameValue(call.value,
                            IF EffectiveReturnData THEN ParserGetData(p, b)
                            ELSE [k |-> "body", v |-> call.outcome.body])

\* C25 (amended): as above, except that the message of the ErrorObject is
\* getMessage(body) when that is a non-empty string and "Request failed"
\* otherwise.  The three parsers are spelled out: "hasData" decides by the data
\* field alone and reports code -2, "alwaysOk" never fails and returns the
\* body, "default" decides by code = 0.
C25_CustomParserDecidesAmended ==
  ( /\ GotResponse
    /\ inst.variant = "parser"
    /\ ~call.cfg.skipBusinessCheck
    /\ call.outcome.body # None ) =>
      LET b == call.outcome.body[1]
          p == inst.parser
          success == CASE p = "hasData" -> b.data # None
                       [] p = "alwaysOk" -> TRUE
                       [] OTHER -> b.code = Some(0)
          code == CASE p = "hasData" -> Some(-2)
                    [] p = "alwaysOk" -> Some(0)
                    [] OTHER -> b.code
          message == IF p = "alwaysOk" THEN Some("success") ELSE b.message
          data == IF p = "alwaysOk" THEN [k |-> "body", v |-> Some(b)]
                  ELSE [k |-> "data", v |-> b.data]
      IN  IF ~success
          THEN /\ call.settled = "rejected"
               /\ call.failure # None
               /\ call.failure[1].code = code
               /\ call.failure[1].message = MessageOrDefault(message)
               /\ call.failure[1].data = data.v
               /\ call.failure[1].httpStatus = Some(call.outcome.status)
               /\ SameValue(call.value, [k |-> "error", v |-> call.failure[1]])
          ELSE /\ call.settled = "resolved"
               /\ call.failure = None
               /\ SameValue(call.value,
                            IF EffectiveReturnData THEN data
                            ELSE [k |-> "body", v |-> call.outcome.body])

\* a parser that ignores the code field rejects an envelope with code 0
C25_Witness ==
  /\ GotResponse
  /\ inst.parser = "hasData"
  /\ ~call.cfg.skipBusinessCheck
  /\ call.outcome.body =
       Some([code |-> Some(0), data |-> None, message |-> Some("ok")])
  /\ call.settled = "rejected"
  /\ call.failure # None
  /\ call.failure[1].code = Some(-2)
  /\ call.failure[1].message = "ok"

\* C26 (as claimed): every transport failure handled by the response error
\* interceptor rejects the call with the ErrorObject built from it, whatever
\* handlers are registered and whatever the reporting function does.
C26_TransportFailureRejectsWithErrorObject ==
  ( /\ call.pc = "settled"
    /\ call.outcome.kind = "error"
    /\ inst.variant # "simple" ) =>
      /\ call.failure # None
      /\ call.settled = "rejected"
      /\ call.value.k = "error"
      /\ call.value.v = TransportError(inst, call.outcome.error[1])

\* C27 (as claimed): when a call has rejected for a business failure or a
\* transport failure, the dispatch of its error is over: no handler of it is
\* still pending.
C27_ChainCompleteBeforeRejection ==
  ( /\ call.pc = "settled"
    /\ call.failure # None
    /\ inst.variant # "simple" ) =>
      /\ dispatch.pc \in {"hidden", "stopped", "completed", "threw"}
      /\ dispatch.error = call.failure[1]

\* number of positions of sequence q holding x
Occurrences(q, x) == Cardinality({p \in 1..Len(q) : q[p] = x})

\* C28 (as claimed): when a dispatch has run to the end of the chain without a
\* stop, every handler that was registered when it started and is still
\* registered has been considered by it, and no more often than it was
\* registered, also when handlers were registered or unregistered while the
\* dispatch was suspended.
C28_NoInterleavingHazard ==
  (dispatch.pc = "completed") =>
    \A h \in HandlerObjs :
      (Occurrences(dispatch.list, h) > 0 /\ Occurrences(handlers, h) > 0) =>
        /\ Occurrences(Considered(dispatch.trace), h) >= 1
        /\ Occurrences(Considered(dispatch.trace), h) <= Occurrences(dispatch.list, h)

\* the response error interceptor has handled a failure with HTTP status 401
Unauthorized401 ==
  /\ call.outcome.kind = "error"
  /\ inst.variant # "simple"
  /\ call.outcome.error[1].response # None
  /\ call.outcome.error[1].response[1].status = 401

\* C30: when an unauthorized callback was supplied it has been invoked exactly
\* once, before the chain was dispatched, for a transport failure with HTTP
\* status 401, with hideErrorTip set or not; it has not been invoked for a
\* business failure (an envelope code of 401 included), for a transport failure
\* with another status or without response, or when none was supplied.
C30_UnauthorizedCallbackOn401Only ==
  IF inst.onUnauthorized /\ Unauthorized401
  THEN /\ Occurrences(call.log, "callback") = 1
       /\ \E p \in 1..Len(call.log) :
            /\ call.log[p] = "callback"
            /\ p < Len(call.log)
            /\ call.log[p + 1] = "handle"
            /\ \A q \in 1..p : call.log[q] # "handle"
       /\ call.unauthorized = "callback"
  ELSE /\ Occurrences(call.log, "callback") = 0
       /\ call.unauthorized # "callback"

\* a 401 answered to a call made with hideErrorTip: the callback ran, the
\* chain was suppressed
C30_Witness ==
  /\ inst.onUnauthorized
  /\ Unauthorized401
  /\ call.cfg.hideErrorTip
  /\ call.log = <<"send", "callback", "handle">>
  /\ dispatch.pc = "hidden"
  /\ call.pc = "settled"
  /\ call.settled = "rejected"

====
